---- MODULE Spec2Model ----
(***************************************************************************)
(* Retrieval and classification core of qiyas.                             *)
(*                                                                         *)
(*   Hybrid search   KnowledgeBaseService.search_hybrid / search_exact /   *)
(*                   query / _rrf_merge                                    *)
(*   Classifier      AzureOpenAIService.analyze_document_for_standard and  *)
(*                   its standard-embedding cache                          *)
(*                                                                         *)
(* Fused scores are exact rationals <<numerator, denominator>>; similarity *)
(* scores are integers in thousandths (0.82 is 820).                       *)
(***************************************************************************)
EXTENDS Integers, Sequences, FiniteSets, TLC

\* ------------------------------------------------------------------------
\* Bounds of the model
\* ------------------------------------------------------------------------
NumIds == 3
MaxResults == 2
\* size of the standard catalog (STANDARD_DESCRIPTIONS has 16 entries)
NumStandards == 3
\* longest chat-completion response, in tokens
MaxRespLen == 3

\* ------------------------------------------------------------------------
\* Program constants
\* ------------------------------------------------------------------------
\* default of the parameter k of _rrf_merge
RrfK == 60
\* k used by test_rrf_merge_logic
TestK == 1
\* minimum stripped length of a document
MinDocLen == 50
\* filename confirmation boost, 0.08
Boost == 80

VARIABLES
    \* ---- hybrid search: the last call and what it gave back ----
    hy_op,          \* "none" | "search_hybrid" | "_rrf_merge"
    semantic,       \* ids of the collection in semantic order for the query
    lexical,        \* ids the exact search matches, in the store's order
    n_results,      \* n_results of search_hybrid / limit of _rrf_merge
    rrf_k,          \* k of _rrf_merge
    query_raises,   \* which invocations of self.query raise (1 = first)
    get_raises,     \* collection.get raises inside search_exact
    query_calls,    \* n_results of each self.query invocation, in order
    hy_raised,      \* the call raised to its caller
    hy_result,      \* the returned 'ids' (batch format: a list of lists)
    query_text,     \* query_text of search_hybrid
    lexical_query,  \* lexical_query of search_hybrid
    query_texts,    \* query_text of each self.query invocation, in order
    exact_calls     \* query of each self.search_exact invocation, in order

hyVars == <<hy_op, semantic, lexical, n_results, rrf_k, query_raises,
            get_raises, query_calls, hy_raised, hy_result, query_text,
            lexical_query, query_texts, exact_calls>>

VARIABLES
    \* ---- AzureOpenAIService: the cache, and the classification in hand ----
    standard_embeddings,    \* keys of self._standard_embeddings
    embeddings_initialized, \* self._embeddings_initialized
    cl_pc,                  \* "idle" | "tier3" (awaiting the chat completion) | "done"
    doc_text,               \* [blank, body]: surrounding whitespace, stripped length
    filename,               \* first \d+\.\d+\.\d+ of the filename, NoId if none
    embed_raises,           \* the embedding of the document raises
    sims,                   \* cosine similarity of the document to each cached standard
    filename_hint,          \* local filename_hint
    best_match,             \* local best_match
    best_score,             \* local best_score (after the boost)
    confidence_margin,      \* local confidence_margin
    confidence,             \* local confidence of Tier 2; "unset", "failed" on exception
    embed_calls,            \* embedding requests for standard descriptions, ever
    llm_calls,              \* chat completions invoked by this call
    llm_response,           \* [raised, text]: the chat completion raised, or its text as tokens
    result,                 \* the returned dict
    flag_at_call            \* the flag as line 119 found it: "unread" | "unset" | "set"

clVars == <<standard_embeddings, embeddings_initialized, cl_pc, doc_text,
            filename, embed_raises, sims, filename_hint, best_match,
            best_score, confidence_margin, confidence, embed_calls,
            llm_calls, llm_response, result, flag_at_call>>

VARIABLES
    \* ---- the Tier-2 thresholds applied to two scores at one margin ----
    th_op,          \* "none" | "applied"
    th_best,        \* a best score
    th_higher,      \* another best score
    th_margin,      \* the margin held fixed
    th_conf,        \* confidence at th_best
    th_conf_higher  \* confidence at th_higher

thVars == <<th_op, th_best, th_higher, th_margin, th_conf, th_conf_higher>>

VARIABLES
    \* ---- the standard-embedding cache under several chat requests ----
    ca_embeddings,  \* keys of self._standard_embeddings
    ca_initialized, \* self._embeddings_initialized
    ca_running,     \* the request the event loop is running, 0 when it is free
    ca_pc,          \* per request: position in analyze_document_for_standard
    ca_first,       \* per request: it arrived before the cache was initialized
    ca_view,        \* per request: the map _get_standard_embeddings returned
    ca_init_runs    \* times the body of "if not self._embeddings_initialized" ran

caVars == <<ca_embeddings, ca_initialized, ca_running, ca_pc, ca_first,
            ca_view, ca_init_runs>>

VARIABLES
    \* ---- the knowledge-base collection, ingest_file and get_neighbors ----
    collection,     \* the records of self.collection
    ing_pc,         \* "idle" | "loop" | "returned"
    ing_file,       \* file_path.name
    ing_version,    \* which content the file holds
    ing_total,      \* total_chunks
    ing_i,          \* the loop variable i
    ing_attempted,  \* chunk indices handed to add_documents, in order
    ing_failed,     \* chunk indices whose add_documents raised
    ing_prev,       \* what the store held for the last id before its upsert
    ing_ret,        \* first component of the returned pair
    nb_op,          \* "none" | "returned"
    nb_filename,    \* arguments of get_neighbors
    nb_index,
    nb_window,
    nb_fetched,     \* the matching records in the order the store gave them
    nb_raised,      \* collection.get raised
    nb_result       \* what get_neighbors returned

stVars == <<collection, ing_pc, ing_file, ing_version, ing_total, ing_i,
            ing_attempted, ing_failed, ing_prev, ing_ret, nb_op, nb_filename,
            nb_index, nb_window, nb_fetched, nb_raised, nb_result>>

VARIABLES
    \* ---- the session collection and the conversations table ----
    session_collection, \* the records of self.session_collection
    conversations,      \* rows of the conversations table: [id, user_id]
    se_op,              \* "none" | "add_session_document" | "delete_conversation"
    se_conversation_id, \* arguments of the call
    se_user_id,
    se_filename,
    se_ret,             \* its return value
    se_store_raised,    \* the vector store raised during the call
    se_delete_calls,    \* calls of delete_session_data made by the call
    messages,           \* rows of the messages table, oldest first
    se_before,          \* the two tables as the call found them
    se_result,          \* what a history read returned
    se_context          \* session chunks a chat request put in its prompt

seVars == <<session_collection, conversations, se_op, se_conversation_id,
            se_user_id, se_filename, se_ret, se_store_raised, se_delete_calls,
            messages, se_before, se_result, se_context>>

VARIABLES
    \* ---- chunk_text ----
    ch_op,      \* "none" | "returned"
    ch_text,    \* arguments of chunk_text
    ch_size,
    ch_overlap,
    ch_result,  \* the chunks returned
    ch_hard     \* the pieces that were hard-sliced, each with its slices

chVars == <<ch_op, ch_text, ch_size, ch_overlap, ch_result, ch_hard>>

VARIABLES
    \* ---- CSRF tokens (Utils/CSRF.py) ----
    csrf_tokens,    \* the module's dict: token -> expiry
    now,            \* datetime.now(timezone.utc), in half hours
    issued,         \* token -> the time generate_csrf_token last returned it
    cs_op,          \* "none" | "generate" | "validate" | "verify" | "cleanup"
    cs_method,      \* request.method of a verify_csrf call
    cs_token,       \* the token presented, or the one generated
    cs_accepted,    \* validate returned True / verify_csrf did not raise
    cs_before       \* csrf_tokens as the call found it

csVars == <<csrf_tokens, now, issued, cs_op, cs_method, cs_token, cs_accepted,
            cs_before>>

VARIABLES
    \* ---- FileValidator.sanitize_filename ----
    fv_op,          \* "none" | "returned"
    fv_filename,    \* the argument
    fv_raised,      \* ValidationError was raised
    fv_result       \* the returned name

fvVars == <<fv_op, fv_filename, fv_raised, fv_result>>

VARIABLES
    \* ---- auto_ingest_existing_files at application startup ----
    au_pc,          \* "idle" | "running" (inside the loop over the files)
    au_todo,        \* files of the Raw folder the loop has yet to take
    au_runs,        \* runs started so far
    au_last         \* the file the loop took last, and what was done with it

auVars == <<au_pc, au_todo, au_runs, au_last>>

vars == <<hyVars, clVars, thVars, caVars, stVars, seVars, chVars, csVars, fvVars, auVars>>

\* what the actions of one component leave alone
notHy == <<clVars, thVars, caVars, stVars, seVars, chVars, csVars, fvVars, auVars>>
notCl == <<hyVars, thVars, caVars, stVars, seVars, chVars, csVars, fvVars, auVars>>
notTh == <<hyVars, clVars, caVars, stVars, seVars, chVars, csVars, fvVars, auVars>>
notCa == <<hyVars, clVars, thVars, stVars, seVars, chVars, csVars, fvVars, auVars>>
notSt == <<hyVars, clVars, thVars, caVars, seVars, chVars, csVars, fvVars, auVars>>
notSe == <<hyVars, clVars, thVars, caVars, stVars, chVars, csVars, fvVars, auVars>>
notCh == <<hyVars, clVars, thVars, caVars, stVars, seVars, csVars, fvVars, auVars>>
notCs == <<hyVars, clVars, thVars, caVars, stVars, seVars, chVars, fvVars, auVars>>
notFv == <<hyVars, clVars, thVars, caVars, stVars, seVars, chVars, csVars, auVars>>
notAu == <<hyVars, clVars, thVars, caVars, stVars, seVars, chVars, csVars, fvVars>>
notStAu == <<hyVars, clVars, thVars, caVars, seVars, chVars, csVars, fvVars>>

\* ------------------------------------------------------------------------
\* Helpers
\* ------------------------------------------------------------------------
Min(a, b) == IF a < b THEN a ELSE b

Max(a, b) == IF a > b THEN a ELSE b

Range(s) == {s[i] : i \in 1..Len(s)}

\* s[:n] of Python for n >= 0
Take(s, n) == SubSeq(s, 1, Min(n, Len(s)))

Ids == 1..NumIds

\* lists of distinct ids: what the vector store returns for one request
DistinctSeqs ==
    {s \in UNION {[1..n -> Ids] : n \in 0..NumIds} :
        \A i, j \in 1..Len(s) : i # j => s[i] # s[j]}

\* exact rationals
RatZero == <<0, 1>>
RatAdd(a, b) == <<a[1] * b[2] + b[1] * a[2], a[2] * b[2]>>
RatGT(a, b) == a[1] * b[2] > b[1] * a[2]
RatEq(a, b) == a[1] * b[2] = b[1] * a[2]

\* ------------------------------------------------------------------------
\* KnowledgeBaseService
\* ------------------------------------------------------------------------
\* query: collection.query(query_texts=[q], n_results=n), batch format
Query(ranking, n) == <<Take(ranking, n)>>

\* search_exact with the exception swallowed nowhere: the failure of
\* collection.get reaches the caller
SearchExactRaising(matches, raises) ==
    [raised |-> raises, ids |-> IF raises THEN <<>> ELSE matches]

\* search_exact: collection.get(where_document=..., limit=2000); any
\* exception is logged and an empty result returned
SearchExact(matches, raises) ==
    [raised |-> FALSE, ids |-> IF raises THEN <<>> ELSE matches]

\* one "for rank, doc_id in enumerate(ids)" loop of _rrf_merge over the dict
\* scores; keys is the dict's insertion order
RECURSIVE RrfAccumulate(_, _, _, _)
RrfAccumulate(acc, ids, rank, k) ==
    IF rank >= Len(ids) THEN acc
    ELSE LET doc_id == ids[rank + 1]
             seen == doc_id \in Range(acc.keys)
             old == IF seen THEN acc.scores[doc_id] ELSE RatZero
         IN RrfAccumulate(
                [keys |-> IF seen THEN acc.keys ELSE Append(acc.keys, doc_id),
                 scores |-> [acc.scores EXCEPT
                                ![doc_id] = RatAdd(old, <<1, k + rank + 1>>)]],
                ids, rank + 1, k)

\* insertion of x before the first strictly smaller element: a sort that
\* is not stable would put x before its equals
InsertDescUnstable(sorted, x, scores) ==
    LET smaller == {i \in 1..Len(sorted) :
                        ~ RatGT(scores[sorted[i]], scores[x])}
        pos == IF smaller = {} THEN Len(sorted) + 1
               ELSE CHOOSE i \in smaller : \A j \in smaller : i <= j
    IN SubSeq(sorted, 1, pos - 1) \o <<x>> \o SubSeq(sorted, pos, Len(sorted))

\* sorted(..., reverse=True) is stable: x goes after every element whose
\* score is >= its own
InsertDesc(sorted, x, scores) ==
    LET smaller == {i \in 1..Len(sorted) :
                        RatGT(scores[x], scores[sorted[i]])}
        pos == IF smaller = {} THEN Len(sorted) + 1
               ELSE CHOOSE i \in smaller : \A j \in smaller : i <= j
    IN SubSeq(sorted, 1, pos - 1) \o <<x>> \o SubSeq(sorted, pos, Len(sorted))

RECURSIVE SortedDesc(_, _)
SortedDesc(keys, scores) ==
    IF keys = <<>> THEN <<>>
    ELSE InsertDesc(SortedDesc(SubSeq(keys, 1, Len(keys) - 1), scores),
                    keys[Len(keys)], scores)

\* _rrf_merge where the lexical pass overwrites instead of accumulating
RrfMergeNoAccumulate(sem, lex, limit, k) ==
    LET sem_ids == IF sem # <<>> /\ Len(sem) > 0 THEN sem[1] ELSE <<>>
        empty == [keys |-> <<>>, scores |-> [i \in Ids |-> RatZero]]
        a1 == RrfAccumulate(empty, sem_ids, 0, k)
        a2 == RrfAccumulate([keys |-> a1.keys,
                             scores |-> [i \in Ids |->
                                 IF i \in Range(lex) THEN RatZero
                                 ELSE a1.scores[i]]], lex, 0, k)
    IN <<Take(SortedDesc(a2.keys, a2.scores), limit)>>

\* _rrf_merge: 'ids' of the fused result
RrfMerge(sem, lex, limit, k) ==
    LET sem_ids == IF sem # <<>> /\ Len(sem) > 0 THEN sem[1] ELSE <<>>
        empty == [keys |-> <<>>, scores |-> [i \in Ids |-> RatZero]]
        a1 == RrfAccumulate(empty, sem_ids, 0, k)
        a2 == RrfAccumulate(a1, lex, 0, k)
    IN <<Take(SortedDesc(a2.keys, a2.scores), limit)>>

\* search_hybrid: what it returns or raises, and the self.query invocations
\* it makes. qr is the set of self.query invocations that raise.
SearchHybridOutcome(ranking, matches, n, qr, gr) ==
    LET exact == SearchExact(matches, gr)
    IN IF 1 \notin qr /\ ~ exact.raised
       THEN [raised |-> FALSE,
             ids |-> RrfMerge(Query(ranking, n * 2), exact.ids, n, RrfK),
             calls |-> <<n * 2>>]
       ELSE \* except Exception: return self.query(query_text, n_results)
            IF 2 \in qr
            THEN [raised |-> TRUE, ids |-> <<>>, calls |-> <<n * 2, n>>]
            ELSE [raised |-> FALSE, ids |-> Query(ranking, n),
                  calls |-> <<n * 2, n>>]

\* the lexical_query argument: None, or a string
NoLexicalQuery == [given |-> FALSE, text |-> ""]
LexicalQueries ==
    {NoLexicalQuery, [given |-> TRUE, text |-> ""],
     [given |-> TRUE, text |-> "lexical"]}

\* an exact search that always takes the semantic text
TargetLexicalQueryText(text, lq) == text

\* line 205: lexical_query if lexical_query else query_text
TargetLexical(text, lq) ==
    IF lq.given /\ lq.text # "" THEN lq.text ELSE text

\* lines 201 and 206: search_exact is reached when the semantic query
\* returned
ExactCalls(text, lq, qr) ==
    IF 1 \in qr THEN <<>> ELSE <<TargetLexical(text, lq)>>

\* ------------------------------------------------------------------------
\* Actions: hybrid search
\* ------------------------------------------------------------------------
SearchHybrid ==
    /\ hy_op = "none"
    /\ \E ranking \in DistinctSeqs, matches \in DistinctSeqs,
       n \in 1..MaxResults, qr \in SUBSET {1, 2}, gr \in BOOLEAN,
       lq \in LexicalQueries :
        LET out == SearchHybridOutcome(ranking, matches, n, qr, gr)
        IN /\ hy_op' = "search_hybrid"
           /\ query_text' = "semantic"
           /\ lexical_query' = lq
           /\ query_texts' = [i \in 1..Len(out.calls) |-> "semantic"]
           /\ exact_calls' = ExactCalls("semantic", lq, qr)
           /\ semantic' = ranking
           /\ lexical' = matches
           /\ n_results' = n
           /\ rrf_k' = RrfK
           /\ query_raises' = qr
           /\ get_raises' = gr
           /\ query_calls' = out.calls
           /\ hy_raised' = out.raised
           /\ hy_result' = out.ids
    /\ UNCHANGED notHy

\* _rrf_merge called directly, as test_rrf_merge_logic does
RrfMergeCall ==
    /\ hy_op = "none"
    /\ \E sem_ids \in DistinctSeqs, lex_ids \in DistinctSeqs,
       limit \in 0..(MaxResults + 1), k \in {TestK, RrfK},
       batch \in BOOLEAN :
        /\ batch \/ sem_ids = <<>>
        /\ hy_op' = "_rrf_merge"
        /\ semantic' = sem_ids
        /\ lexical' = lex_ids
        /\ n_results' = limit
        /\ rrf_k' = k
        /\ query_raises' = {}
        /\ get_raises' = FALSE
        /\ query_calls' = <<>>
        /\ query_text' = ""
        /\ lexical_query' = NoLexicalQuery
        /\ query_texts' = <<>>
        /\ exact_calls' = <<>>
        /\ hy_raised' = FALSE
        /\ hy_result' = RrfMerge(IF batch THEN <<sem_ids>> ELSE <<>>,
                                 lex_ids, limit, k)
    /\ UNCHANGED notHy

InitHybrid ==
    /\ hy_op = "none"
    /\ semantic = <<>>
    /\ lexical = <<>>
    /\ n_results = 0
    /\ rrf_k = RrfK
    /\ query_raises = {}
    /\ get_raises = FALSE
    /\ query_calls = <<>>
    /\ query_text = ""
    /\ lexical_query = NoLexicalQuery
    /\ query_texts = <<>>
    /\ exact_calls = <<>>
    /\ hy_raised = FALSE
    /\ hy_result = <<>>

\* the caller has consumed the result; the service keeps nothing of a call
HybridReturn ==
    /\ hy_op # "none"
    /\ hy_op' = "none"
    /\ semantic' = <<>>
    /\ lexical' = <<>>
    /\ n_results' = 0
    /\ rrf_k' = RrfK
    /\ query_raises' = {}
    /\ get_raises' = FALSE
    /\ query_calls' = <<>>
    /\ query_text' = ""
    /\ lexical_query' = NoLexicalQuery
    /\ query_texts' = <<>>
    /\ exact_calls' = <<>>
    /\ hy_raised' = FALSE
    /\ hy_result' = <<>>
    /\ UNCHANGED notHy

\* ------------------------------------------------------------------------
\* AzureOpenAIService.analyze_document_for_standard
\* ------------------------------------------------------------------------
\* keys of STANDARD_DESCRIPTIONS, in dict order
Standards == 1..NumStandards
\* None
None == 0
\* a dotted id that is no key of STANDARD_DESCRIPTIONS
UnknownId == NumStandards + 1
\* the filename holds no dotted id
NoId == -1

Filenames == {NoId, UnknownId} \cup Standards

\* documents: whitespace around a body of the given stripped length
Documents == [blank : {0, 2}, body : {0, MinDocLen - 1, MinDocLen}]

\* similarity scores the embeddings can give, in thousandths
Scores == {-1000, 600, 610, 660, 690, 710, 740, 790, 820, 830}

\* tokens of a chat-completion response: braces, a key/value group with all
\* three fields ("F"), the same with a confidence outside the vocabulary
\* ("B"), a lone "tier": 1 pair ("T"), and text that is no JSON ("x")
Tokens == {"{", "}", "F", "B", "T", "x"}

Responses == UNION {[1..n -> Tokens] : n \in 0..MaxRespLen}

\* the guard without the strip()
TooShortNoStrip(doc) == doc.blank + doc.body < MinDocLen

\* not doc_text or len(doc_text.strip()) < 50
TooShort(doc) == doc.blank + doc.body = 0 \/ doc.body < MinDocLen

Tier0Result ==
    [standard_id |-> None, confidence |-> "low",
     reasoning |-> "Document too short for analysis", tier |-> 0]

\* Tier 1: re.search(r'(\d+\.\d+\.\d+)') and detected_id in STANDARD_DESCRIPTIONS
FilenameHint(detected) == IF detected \in Standards THEN detected ELSE None

\* the scan "for std_id, std_embedding in standard_embeddings.items()",
\* from the key i on
RECURSIVE ScanScores(_, _, _, _)
ScanScores(keys, sc, i, acc) ==
    IF i > NumStandards THEN acc
    ELSE IF i \notin keys THEN ScanScores(keys, sc, i + 1, acc)
    ELSE ScanScores(keys, sc, i + 1,
            IF sc[i] > acc.best_score
            THEN [best_match |-> i, best_score |-> sc[i],
                  second_best_score |-> acc.best_score]
            ELSE IF sc[i] > acc.second_best_score
            THEN [acc EXCEPT !.second_best_score = sc[i]]
            ELSE acc)

\* thresholds with >= in place of >
ConfidenceLevelInclusive(b, m) ==
    IF b >= 820 \/ (b >= 780 /\ m >= 50) THEN "high"
    ELSE IF b >= 720 \/ (b >= 680 /\ m >= 30) THEN "medium"
    ELSE IF b >= 600 THEN "low"
    ELSE "none"

\* thresholds with one comparison turned round
ConfidenceLevelFlipped(b, m) ==
    IF b > 820 \/ (b < 780 /\ m > 50) THEN "high"
    ELSE IF b > 720 \/ (b > 680 /\ m > 30) THEN "medium"
    ELSE IF b > 600 THEN "low"
    ELSE "none"

\* lines 276-284; "none" is the Python None
ConfidenceLevel(b, m) ==
    IF b > 820 \/ (b > 780 /\ m > 50) THEN "high"
    ELSE IF b > 720 \/ (b > 680 /\ m > 30) THEN "medium"
    ELSE IF b > 600 THEN "low"
    ELSE "none"

\* a margin taken after the boost
ConfidenceMarginAfterBoost(scan, boosted) == boosted - scan.second_best_score

\* line 264, before the boost of line 269 is added
ConfidenceMargin(scan, boosted) == scan.best_score - scan.second_best_score

\* a Tier 2 that lets the filename hint override the best match
Tier2HintTrusted(hint, keys, sc) ==
    LET scan == ScanScores(keys, sc, 1,
                    [best_match |-> None, best_score |-> -1000,
                     second_best_score |-> -1000])
        margin == scan.best_score - scan.second_best_score
        confirmed == hint # None
        boosted == IF confirmed THEN scan.best_score + Boost
                   ELSE scan.best_score
    IN [best_match |-> IF confirmed THEN hint ELSE scan.best_match,
        best_score |-> boosted,
        confidence_margin |-> margin,
        filename_confirmed |-> confirmed,
        confidence |-> ConfidenceLevel(boosted, margin)]

\* Tier 2 after the embeddings are in hand: lines 244-284
Tier2(hint, keys, sc) ==
    LET scan == ScanScores(keys, sc, 1,
                    [best_match |-> None, best_score |-> -1000,
                     second_best_score |-> -1000])
        confirmed == hint # None /\ hint = scan.best_match
        boosted == IF confirmed THEN scan.best_score + Boost
                   ELSE scan.best_score
        margin == ConfidenceMargin(scan, boosted)
    IN [best_match |-> scan.best_match,
        best_score |-> boosted,
        confidence_margin |-> margin,
        filename_confirmed |-> confirmed,
        confidence |-> ConfidenceLevel(boosted, margin)]

\* a cascade that stops at Tier 2 on a high confidence only
Tier2ReturnsOnHighOnly(conf) == conf = "high"

\* "if confidence:" of line 286
Tier2Returns(conf) == conf # "none"

Tier2Result(t2) ==
    [standard_id |-> t2.best_match, confidence |-> t2.confidence,
     reasoning |-> IF t2.filename_confirmed
                   THEN "Embedding similarity (filename confirmed)"
                   ELSE "Embedding similarity",
     tier |-> 2]

\* re.search(r'\{[^}]+\}', text): the leftmost "{" followed by at least one
\* token other than "}" and then "}"; inner is what stands between them
JsonMatch(text) ==
    LET starts == {i \in 1..Len(text) :
                      /\ text[i] = "{"
                      /\ \E j \in (i + 2)..Len(text) :
                            /\ text[j] = "}"
                            /\ \A m \in (i + 1)..(j - 1) : text[m] # "}"}
    IN IF starts = {} THEN [found |-> FALSE, inner |-> <<>>]
       ELSE LET i == CHOOSE a \in starts : \A b \in starts : a <= b
                j == CHOOSE c \in (i + 2)..Len(text) :
                        /\ text[c] = "}"
                        /\ \A m \in (i + 1)..(c - 1) : text[m] # "}"
            IN [found |-> TRUE, inner |-> SubSeq(text, i + 1, j - 1)]

\* the dict one key/value group stands for
TokenDict(tok) ==
    IF tok = "F"
    THEN [standard_id |-> 1, confidence |-> "high", reasoning |-> "llm"]
    ELSE IF tok = "B"
    THEN [standard_id |-> 1, confidence |-> "certain", reasoning |-> "llm"]
    ELSE [tier |-> 1]

\* the dict of a run of key/value groups; a later key replaces an earlier
RECURSIVE GroupsDict(_)
GroupsDict(inner) ==
    IF Len(inner) = 1 THEN TokenDict(inner[1])
    ELSE TokenDict(inner[Len(inner)])
            @@ GroupsDict(SubSeq(inner, 1, Len(inner) - 1))

\* json.loads of the matched text: it raises unless every token between the
\* braces is a key/value group
JsonLoads(inner) ==
    IF \E i \in 1..Len(inner) : inner[i] \notin {"F", "B", "T"}
    THEN [raised |-> TRUE, dict |-> [tier |-> 1]]
    ELSE [raised |-> FALSE, dict |-> GroupsDict(inner)]

LlmFailure(why) ==
    [standard_id |-> None, confidence |-> "low", reasoning |-> why, tier |-> 3]

\* a Tier 3 whose unparsable response is returned with confidence None
Tier3ResultNoConfidence(response) ==
    IF response.raised THEN LlmFailure("LLM analysis error")
    ELSE LET json_match == JsonMatch(response.text)
         IN IF ~ json_match.found
            THEN [LlmFailure("Could not parse LLM response")
                    EXCEPT !.confidence = "none"]
            ELSE LET loaded == JsonLoads(json_match.inner)
                 IN IF loaded.raised THEN LlmFailure("LLM analysis error")
                    ELSE ("tier" :> 3) @@ loaded.dict

\* Tier 3 once the chat completion has answered or raised: lines 331-350
Tier3Result(response) ==
    IF response.raised THEN LlmFailure("LLM analysis error")
    ELSE LET json_match == JsonMatch(response.text)
         IN IF ~ json_match.found
            THEN LlmFailure("Could not parse LLM response")
            ELSE LET loaded == JsonLoads(json_match.inner)
                 IN IF loaded.raised THEN LlmFailure("LLM analysis error")
                    ELSE ("tier" :> 3) @@ loaded.dict

NoResult == [pending |-> TRUE]
NoSims == [i \in {} |-> 0]
NoResponse == [raised |-> FALSE, text |-> <<>>]

\* what the chat completion can do: raise, or answer with a text
LlmOutcomes ==
    {[raised |-> TRUE, text |-> <<>>]}
        \cup {[raised |-> FALSE, text |-> t] : t \in Responses}

\* a cache that is computed again at every call
AlwaysCompute(initialized) == TRUE

\* line 119: "if not self._embeddings_initialized"
NeedsCompute(initialized) == ~ initialized

\* ------------------------------------------------------------------------
\* Actions: classifier
\* ------------------------------------------------------------------------
\* Tier 0: the document is too short
AnalyzeTooShort ==
    /\ cl_pc = "idle"
    /\ \E doc \in Documents, fname \in Filenames :
        /\ TooShort(doc)
        /\ doc_text' = doc
        /\ filename' = fname
        /\ result' = Tier0Result
    /\ cl_pc' = "done"
    /\ flag_at_call' = "unread"
    /\ UNCHANGED <<standard_embeddings, embeddings_initialized, embed_raises,
                   sims, filename_hint, best_match, best_score,
                   confidence_margin, confidence, embed_calls, llm_calls,
                   llm_response>>
    /\ UNCHANGED notCl

\* Tier 1, then Tier 2 fails: the embedding of the document raises, before
\* _get_standard_embeddings is reached
AnalyzeEmbeddingFails ==
    /\ cl_pc = "idle"
    /\ \E doc \in Documents, fname \in Filenames :
        /\ ~ TooShort(doc)
        /\ doc_text' = doc
        /\ filename' = fname
        /\ filename_hint' = FilenameHint(fname)
    /\ embed_raises' = TRUE
    /\ confidence' = "failed"
    /\ flag_at_call' = "unread"
    /\ llm_calls' = llm_calls + 1
    /\ cl_pc' = "tier3"
    /\ UNCHANGED <<standard_embeddings, embeddings_initialized, sims,
                   best_match, best_score, confidence_margin, embed_calls,
                   llm_response, result>>
    /\ UNCHANGED notCl

\* Tier 1 and Tier 2 with the embeddings in hand. _get_standard_embeddings
\* fills the cache on first use: the batch request gives every standard, or
\* it raises and the per-standard requests give the subset that succeeds.
AnalyzeTier2 ==
    /\ cl_pc = "idle"
    /\ \E doc \in Documents, fname \in Filenames, batch_ok \in BOOLEAN,
          got \in SUBSET Standards :
        /\ ~ TooShort(doc)
        /\ ~ NeedsCompute(embeddings_initialized) =>
                (batch_ok /\ got = standard_embeddings)
        /\ (NeedsCompute(embeddings_initialized) /\ batch_ok) =>
                got = Standards
        /\ flag_at_call' = IF NeedsCompute(embeddings_initialized)
                           THEN "unset" ELSE "set"
        /\ \E sc \in [got -> Scores] :
            LET t2 == Tier2(FilenameHint(fname), got, sc)
            IN /\ doc_text' = doc
               /\ filename' = fname
               /\ filename_hint' = FilenameHint(fname)
               /\ standard_embeddings' = got
               /\ embeddings_initialized' = TRUE
               /\ embed_calls' = IF ~ NeedsCompute(embeddings_initialized)
                                 THEN embed_calls
                                 ELSE IF batch_ok THEN 1
                                 ELSE 1 + NumStandards
               /\ sims' = sc
               /\ best_match' = t2.best_match
               /\ best_score' = t2.best_score
               /\ confidence_margin' = t2.confidence_margin
               /\ confidence' = t2.confidence
               /\ IF Tier2Returns(t2.confidence)
                  THEN /\ result' = Tier2Result(t2)
                       /\ cl_pc' = "done"
                       /\ llm_calls' = llm_calls
                  ELSE /\ result' = result
                       /\ cl_pc' = "tier3"
                       /\ llm_calls' = llm_calls + 1
    /\ UNCHANGED <<embed_raises, llm_response>>
    /\ UNCHANGED notCl

\* Tier 3: the chat completion answers or raises
Tier3 ==
    /\ cl_pc = "tier3"
    /\ \E response \in LlmOutcomes :
        /\ llm_response' = response
        /\ result' = Tier3Result(response)
    /\ cl_pc' = "done"
    /\ UNCHANGED <<standard_embeddings, embeddings_initialized, doc_text,
                   filename, embed_raises, sims, filename_hint, best_match,
                   best_score, confidence_margin, confidence, embed_calls,
                   llm_calls, flag_at_call>>
    /\ UNCHANGED notCl

\* the caller has the result; only the cache survives the call
AnalyzeReturn ==
    /\ cl_pc = "done"
    /\ cl_pc' = "idle"
    /\ doc_text' = [blank |-> 0, body |-> 0]
    /\ filename' = NoId
    /\ embed_raises' = FALSE
    /\ sims' = NoSims
    /\ filename_hint' = None
    /\ best_match' = None
    /\ best_score' = -1000
    /\ confidence_margin' = 0
    /\ confidence' = "unset"
    /\ llm_calls' = 0
    /\ llm_response' = NoResponse
    /\ result' = NoResult
    /\ flag_at_call' = "unread"
    /\ UNCHANGED <<standard_embeddings, embeddings_initialized, embed_calls>>
    /\ UNCHANGED notCl

InitClassifier ==
    /\ standard_embeddings = {}
    /\ embeddings_initialized = FALSE
    /\ cl_pc = "idle"
    /\ doc_text = [blank |-> 0, body |-> 0]
    /\ filename = NoId
    /\ embed_raises = FALSE
    /\ sims = NoSims
    /\ filename_hint = None
    /\ best_match = None
    /\ best_score = -1000
    /\ confidence_margin = 0
    /\ confidence = "unset"
    /\ embed_calls = 0
    /\ llm_calls = 0
    /\ llm_response = NoResponse
    /\ result = NoResult
    /\ flag_at_call = "unread"

\* ------------------------------------------------------------------------
\* The Tier-2 thresholds as a function of score and margin
\* ------------------------------------------------------------------------
\* best scores from 0.58 to 0.92 in hundredths, and margins around 0.03, 0.05
ThresholdScores == {x * 10 : x \in 58..92}
ThresholdMargins == {0, 30, 31, 50, 51, 200}

ApplyThresholds ==
    /\ th_op = "none"
    /\ \E b1 \in ThresholdScores, b2 \in ThresholdScores,
          m \in ThresholdMargins :
        /\ th_best' = b1
        /\ th_higher' = b2
        /\ th_margin' = m
        /\ th_conf' = ConfidenceLevel(b1, m)
        /\ th_conf_higher' = ConfidenceLevel(b2, m)
    /\ th_op' = "applied"
    /\ UNCHANGED notTh

ThresholdsReturn ==
    /\ th_op = "applied"
    /\ th_op' = "none"
    /\ th_best' = 0
    /\ th_higher' = 0
    /\ th_margin' = 0
    /\ th_conf' = "unset"
    /\ th_conf_higher' = "unset"
    /\ UNCHANGED notTh

InitThresholds ==
    /\ th_op = "none"
    /\ th_best = 0
    /\ th_higher = 0
    /\ th_margin = 0
    /\ th_conf = "unset"
    /\ th_conf_higher = "unset"

NextThresholds == ApplyThresholds \/ ThresholdsReturn

\* ------------------------------------------------------------------------
\* The standard-embedding cache (AIService.py, _get_standard_embeddings)
\* under concurrent chat requests with an attached file (Chat.py)
\* ------------------------------------------------------------------------
NumRequests == 2
MaxInitRuns == 3

Requests == 1..NumRequests

NoView == [set |-> FALSE, keys |-> {}]

\* an embeddings request that hands the event loop to another coroutine
EmbeddingRequestAwaited == TRUE

\* lines 128-131 and 143-146: the requests go through self.sync_client and are
\* not awaited, so the coroutine keeps the event loop while they are served
EmbeddingRequestYields == FALSE

\* the chat endpoint is entered; the coroutine waits for the event loop
Arrive(r) ==
    /\ ca_pc[r] = "idle"
    /\ ca_pc' = [ca_pc EXCEPT ![r] = "queued"]
    /\ ca_first' = [ca_first EXCEPT ![r] = ~ ca_initialized]
    /\ UNCHANGED <<ca_embeddings, ca_initialized, ca_running, ca_view,
                   ca_init_runs>>
    /\ UNCHANGED notCa

\* the coroutine gets the loop; the document embedding (lines 235-239) is
\* obtained, or it raises and the except of line 294 leads to Tier 3
Begin(r) ==
    /\ ca_pc[r] = "queued"
    /\ ca_running = 0
    /\ \E doc_ok \in BOOLEAN :
        IF doc_ok
        THEN /\ ca_pc' = [ca_pc EXCEPT ![r] = "get"]
             /\ ca_running' = r
        ELSE /\ ca_pc' = [ca_pc EXCEPT ![r] = "await_llm"]
             /\ ca_running' = 0
    /\ UNCHANGED <<ca_embeddings, ca_initialized, ca_first, ca_view,
                   ca_init_runs>>
    /\ UNCHANGED notCa

\* lines 119-121: the flag is read, the map reset
CheckFlag(r) ==
    /\ ca_pc[r] = "get"
    /\ ca_running = r
    /\ IF NeedsCompute(ca_initialized)
       THEN /\ ca_init_runs < MaxInitRuns
            /\ ca_embeddings' = {}
            /\ ca_init_runs' = ca_init_runs + 1
            /\ ca_pc' = [ca_pc EXCEPT ![r] = "batch"]
            /\ ca_running' = IF EmbeddingRequestYields THEN 0 ELSE r
       ELSE /\ ca_pc' = [ca_pc EXCEPT ![r] = "return"]
            /\ UNCHANGED <<ca_embeddings, ca_init_runs, ca_running>>
    /\ UNCHANGED <<ca_initialized, ca_first, ca_view>>
    /\ UNCHANGED notCa

\* lines 124-150: the batch request answers with one embedding per standard,
\* or it raises and each standard is requested alone, the failures skipped;
\* the flag is set on both paths
ComputeEmbeddings(r) ==
    /\ ca_pc[r] = "batch"
    /\ \/ ca_running = r
       \/ EmbeddingRequestYields /\ ca_running = 0
    /\ \E batch_ok \in BOOLEAN, got \in SUBSET Standards :
        /\ batch_ok => got = Standards
        /\ ca_embeddings' = ca_embeddings \cup got
    /\ ca_initialized' = TRUE
    /\ ca_running' = r
    /\ ca_pc' = [ca_pc EXCEPT ![r] = "return"]
    /\ UNCHANGED <<ca_first, ca_view, ca_init_runs>>
    /\ UNCHANGED notCa

\* line 153 and the rest of Tier 2: the map is returned and scanned; the
\* function returns at line 292 or goes on to await the chat completion
ReturnEmbeddings(r) ==
    /\ ca_pc[r] = "return"
    /\ ca_running = r
    /\ ca_view' = [ca_view EXCEPT ![r] = [set |-> TRUE, keys |-> ca_embeddings]]
    /\ \E tier2_returns \in BOOLEAN :
        ca_pc' = [ca_pc EXCEPT ![r] =
                     IF tier2_returns THEN "done" ELSE "await_llm"]
    /\ ca_running' = 0
    /\ UNCHANGED <<ca_embeddings, ca_initialized, ca_first, ca_init_runs>>
    /\ UNCHANGED notCa

\* lines 320-350: the awaited chat completion ends, the function returns
LlmDone(r) ==
    /\ ca_pc[r] = "await_llm"
    /\ ca_running = 0
    /\ ca_pc' = [ca_pc EXCEPT ![r] = "done"]
    /\ UNCHANGED <<ca_embeddings, ca_initialized, ca_running, ca_first,
                   ca_view, ca_init_runs>>
    /\ UNCHANGED notCa

\* the request is over; the service object and its cache live on
RequestEnds(r) ==
    /\ ca_pc[r] = "done"
    /\ ca_pc' = [ca_pc EXCEPT ![r] = "idle"]
    /\ ca_first' = [ca_first EXCEPT ![r] = FALSE]
    /\ ca_view' = [ca_view EXCEPT ![r] = NoView]
    /\ UNCHANGED <<ca_embeddings, ca_initialized, ca_running, ca_init_runs>>
    /\ UNCHANGED notCa

\* lines 114-115
InitCache ==
    /\ ca_embeddings = {}
    /\ ca_initialized = FALSE
    /\ ca_running = 0
    /\ ca_pc = [r \in Requests |-> "idle"]
    /\ ca_first = [r \in Requests |-> FALSE]
    /\ ca_view = [r \in Requests |-> NoView]
    /\ ca_init_runs = 0

NextCache ==
    \/ \E r \in Requests : Arrive(r)
    \/ \E r \in Requests : Begin(r)
    \/ \E r \in Requests : CheckFlag(r)
    \/ \E r \in Requests : ComputeEmbeddings(r)
    \/ \E r \in Requests : ReturnEmbeddings(r)
    \/ \E r \in Requests : LlmDone(r)
    \/ \E r \in Requests : RequestEnds(r)

\* ------------------------------------------------------------------------
\* The knowledge-base collection: ingest_file (IngestionService.py) and
\* get_neighbors (KnowledgeBaseService.py)
\* ------------------------------------------------------------------------
MaxChunks == 5

\* files in the documents folder: one whose content changes between two
\* ingestions and has up to MaxChunks chunks, and a one-chunk file
Sources == {"a.pdf", "b.pdf"}
Versions == {"old", "new"}
IngestInputs ==
    [file : {"a.pdf"}, version : Versions, total : 1..MaxChunks]
        \cup [file : {"b.pdf"}, version : {"old"}, total : {1}]

\* chunks[j] of a file's content
ChunkOf(file, version, j) == [of |-> file, content |-> version, part |-> j]

\* line 94: f"{file_path.name}_chunk_{j}"
ChunkId(file, j) == <<file, "chunk", j>>

\* lines 94-95: id, document and metadata of chunk j
ChunkRecord(file, version, j) ==
    [id |-> ChunkId(file, j), source |-> file, chunk_index |-> j,
     text |-> ChunkOf(file, version, j)]

\* a store that appends what it is given
Add(coll, rec) == coll \cup {rec}

\* collection.upsert: the record replaces the one with its id
Upsert(coll, rec) == {r \in coll : r.id # rec.id} \cup {rec}

\* range(0, total_chunks, batch_size) stopping at the first failure
AbortAfterFailedBatch(i, total) == total

\* line 104: continue with the next batch
AfterFailedBatch(i, total) == i + 1

NoPrev ==
    [had |-> FALSE, index |-> 0, text |-> ChunkOf("", "", 0), count |-> 0]

\* lines 63-90: extraction raises, gives blank text, or gives text that is
\* chunked
IngestBegin ==
    /\ ing_pc = "idle"
    /\ nb_op = "none"
    /\ \E in \in IngestInputs, extracted \in {"raises", "blank", "text"} :
        /\ ing_file' = in.file
        /\ ing_version' = in.version
        /\ IF extracted = "text"
           THEN /\ ing_pc' = "loop"
                /\ ing_total' = in.total
                /\ ing_ret' = "pending"
           ELSE /\ ing_pc' = "returned"
                /\ ing_total' = 0
                /\ ing_ret' = "False"
    /\ ing_i' = 0
    /\ ing_attempted' = <<>>
    /\ ing_failed' = {}
    /\ ing_prev' = NoPrev
    /\ UNCHANGED <<collection, nb_op, nb_filename, nb_index, nb_window,
                   nb_fetched, nb_raised, nb_result>>
    /\ UNCHANGED notSt

\* lines 92-104, one turn of the loop with batch_size = 1
IngestBatch ==
    /\ ing_pc = "loop"
    /\ ing_i < ing_total
    /\ LET rec == ChunkRecord(ing_file, ing_version, ing_i)
           old == {r \in collection : r.id = rec.id}
       IN /\ ing_attempted' = Append(ing_attempted, ing_i)
          /\ \E raises \in BOOLEAN :
               IF raises
               THEN /\ ing_failed' = ing_failed \cup {ing_i}
                    /\ ing_i' = AfterFailedBatch(ing_i, ing_total)
                    /\ UNCHANGED <<collection, ing_prev>>
               ELSE /\ collection' = Upsert(collection, rec)
                    /\ ing_prev' =
                         [had |-> old # {},
                          index |-> ing_i,
                          text |-> IF old = {} THEN NoPrev.text
                                   ELSE (CHOOSE r \in old : TRUE).text,
                          count |-> Cardinality({r.id : r \in collection})]
                    /\ ing_i' = ing_i + 1
                    /\ ing_failed' = ing_failed
    /\ UNCHANGED <<ing_pc, ing_file, ing_version, ing_total, ing_ret>>
    /\ UNCHANGED <<nb_op, nb_filename, nb_index, nb_window, nb_fetched,
                   nb_raised, nb_result>>
    /\ UNCHANGED notSt

\* line 106
IngestEnd ==
    /\ ing_pc = "loop"
    /\ ing_i >= ing_total
    /\ ing_pc' = "returned"
    /\ ing_ret' = "True"
    /\ UNCHANGED <<collection, ing_file, ing_version, ing_total, ing_i,
                   ing_attempted, ing_failed, ing_prev>>
    /\ UNCHANGED <<nb_op, nb_filename, nb_index, nb_window, nb_fetched,
                   nb_raised, nb_result>>
    /\ UNCHANGED notSt

IngestReturn ==
    /\ ing_pc = "returned"
    /\ ing_pc' = "idle"
    /\ ing_file' = ""
    /\ ing_version' = ""
    /\ ing_total' = 0
    /\ ing_i' = 0
    /\ ing_attempted' = <<>>
    /\ ing_failed' = {}
    /\ ing_prev' = NoPrev
    /\ ing_ret' = "pending"
    /\ UNCHANGED <<collection, nb_op, nb_filename, nb_index, nb_window,
                   nb_fetched, nb_raised, nb_result>>
    /\ UNCHANGED notSt

\* collection.get(where={"$and": [{"source": ...}, {"chunk_index": {"$in": ...}}]})
Matching(coll, file, indices) ==
    {r \in coll : r.source = file /\ r.chunk_index \in indices}

\* the orders in which the store may list a set of records
Orders(S) ==
    {s \in [1..Cardinality(S) -> S] :
        \A i, j \in 1..Cardinality(S) : i # j => s[i] # s[j]}

RECURSIVE InsertByIndex(_, _)
InsertByIndex(seq, rec) ==
    IF seq = <<>> THEN <<rec>>
    ELSE IF rec.chunk_index < Head(seq).chunk_index THEN <<rec>> \o seq
    ELSE <<Head(seq)>> \o InsertByIndex(Tail(seq), rec)

RECURSIVE SortByChunkIndexFrom(_, _)
SortByChunkIndexFrom(done, rest) ==
    IF rest = <<>> THEN done
    ELSE SortByChunkIndexFrom(InsertByIndex(done, Head(rest)), Tail(rest))

\* the records as the store listed them
StoreOrder(seq) == seq

\* line 300: sorted(zipped, key=chunk_index), a stable sort
SortByChunkIndex(seq) == SortByChunkIndexFrom(<<>>, seq)

\* lines 276-280
TargetIndices(index, window) == Max(0, index - window)..(index + window)

Windows == {0, 1}

\* lines 272-304; the call is taken between ingestions: every content the
\* collection has between two batches it also has after an ingestion whose
\* remaining batches failed
GetNeighbors ==
    /\ nb_op = "none"
    /\ ing_pc = "idle"
    /\ \E file \in Sources, index \in 0..MaxChunks, window \in Windows,
          raises \in BOOLEAN :
        /\ nb_filename' = file
        /\ nb_index' = index
        /\ nb_window' = window
        /\ nb_raised' = raises
        /\ IF raises
           THEN /\ nb_fetched' = <<>>
                /\ nb_result' = <<>>
           ELSE \E fetched \in Orders(Matching(collection, file,
                                         TargetIndices(index, window))) :
                  /\ nb_fetched' = fetched
                  /\ nb_result' =
                       IF Len(fetched) > 0
                       THEN [k \in 1..Len(fetched) |->
                               SortByChunkIndex(fetched)[k].text]
                       ELSE <<>>
    /\ nb_op' = "returned"
    /\ UNCHANGED <<collection, ing_pc, ing_file, ing_version, ing_total,
                   ing_i, ing_attempted, ing_failed, ing_prev, ing_ret>>
    /\ UNCHANGED notSt

NeighborsReturn ==
    /\ nb_op = "returned"
    /\ nb_op' = "none"
    /\ nb_filename' = ""
    /\ nb_index' = 0
    /\ nb_window' = 0
    /\ nb_fetched' = <<>>
    /\ nb_raised' = FALSE
    /\ nb_result' = <<>>
    /\ UNCHANGED <<collection, ing_pc, ing_file, ing_version, ing_total,
                   ing_i, ing_attempted, ing_failed, ing_prev, ing_ret>>
    /\ UNCHANGED notSt

InitStore ==
    /\ collection = {}
    /\ ing_pc = "idle"
    /\ ing_file = ""
    /\ ing_version = ""
    /\ ing_total = 0
    /\ ing_i = 0
    /\ ing_attempted = <<>>
    /\ ing_failed = {}
    /\ ing_prev = NoPrev
    /\ ing_ret = "pending"
    /\ nb_op = "none"
    /\ nb_filename = ""
    /\ nb_index = 0
    /\ nb_window = 0
    /\ nb_fetched = <<>>
    /\ nb_raised = FALSE
    /\ nb_result = <<>>

NextStore ==
    \/ IngestBegin
    \/ IngestBatch
    \/ IngestEnd
    \/ IngestReturn
    \/ GetNeighbors
    \/ NeighborsReturn

\* ------------------------------------------------------------------------
\* The session collection (KnowledgeBaseService.py, session methods) and
\* delete_conversation (ChatHistoryService.py)
\* ------------------------------------------------------------------------
MaxStored == 3

\* lines 315-316 of KnowledgeBaseService.py
SessionChunkSize == 1000
SessionOverlap == 100

ConversationIds == {1, 2}
UserIds == {1, 2}
SessionFiles == {"a.pdf", "b.pdf"}
\* lengths of the uploaded texts: no chunk, one chunk, two chunks
TextLengths == {0, 500, 1500}
\* values of os.urandom(4).hex(); two draws may coincide
Nonces == {"1f", "2e"}

\* lines 319-323: the [start, end) bounds of the slices of a text of length n
RECURSIVE SessionSlicesFrom(_, _)
SessionSlicesFrom(start, n) ==
    IF start < n
    THEN <<[from |-> start, to |-> Min(start + SessionChunkSize, n)]>>
           \o SessionSlicesFrom(start + SessionChunkSize - SessionOverlap, n)
    ELSE <<>>

SessionSlices(n) == SessionSlicesFrom(0, n)

\* line 325: f"sess_{conversation_id}_{i}_{os.urandom(4).hex()}"
SessionId(conversation_id, i, nonce) == <<"sess", conversation_id, i, nonce>>

\* lines 325-326: the records of one upload, i counted from 0
SessionRecords(conversation_id, file, n, nonce) ==
    {[id |-> SessionId(conversation_id, k - 1, nonce[k]),
      conversation_id |-> conversation_id,
      source |-> file,
      chunk_index |-> k - 1,
      text |-> [of |-> file, slice |-> SessionSlices(n)[k]]]
       : k \in 1..Len(SessionSlices(n))}

\* session_collection.upsert of a set of records
UpsertAll(coll, recs) ==
    {r \in coll : \A x \in recs : x.id # r.id} \cup recs

\* the conversations and messages tables and the session collection
Tables == [conversations |-> conversations, messages |-> messages, session_collection |-> session_collection]
NoTables == [conversations |-> {}, messages |-> <<>>, session_collection |-> {}]

\* the value of a history read: None, or the messages and their total
NotRead == [read |-> FALSE, none |-> FALSE, messages |-> <<>>, total |-> 0]

\* lines 308-337
AddSessionDocument ==
    /\ se_op = "none"
    /\ \E c \in ConversationIds, file \in SessionFiles, n \in TextLengths,
          raises \in BOOLEAN :
        \E nonce \in [1..Len(SessionSlices(n)) -> Nonces] :
            LET recs == SessionRecords(c, file, n, nonce)
            IN /\ Cardinality(session_collection) + Cardinality(recs)
                     <= MaxStored
               /\ se_conversation_id' = c
               /\ se_filename' = file
               /\ se_store_raised' = raises
               /\ IF raises
                  THEN /\ se_ret' = "False"
                       /\ UNCHANGED session_collection
                  ELSE /\ se_ret' = "True"
                       /\ session_collection' =
                            UpsertAll(session_collection, recs)
    /\ se_op' = "add_session_document"
    /\ se_user_id' = 0
    /\ se_delete_calls' = 0
    /\ se_before' = Tables
    /\ se_result' = NotRead
    /\ se_context' = {}
    /\ UNCHANGED <<conversations, messages>>
    /\ UNCHANGED notSe

\* a conversation row is created for a user
CreateConversation ==
    /\ se_op = "none"
    /\ \E c \in ConversationIds, u \in UserIds :
        /\ \A row \in conversations : row.id # c
        /\ conversations' = conversations \cup {[id |-> c, user_id |-> u]}
    /\ UNCHANGED <<session_collection, se_op, se_conversation_id, se_user_id,
                   se_filename, se_ret, se_store_raised, se_delete_calls,
                   messages, se_before, se_result, se_context>>
    /\ UNCHANGED notSe

\* ChatHistoryService.py lines 175-177: the value of delete_session_data is
\* dropped
DeleteReturns(store_ok) == "True"

\* KnowledgeBaseService.py lines 354-366
DeleteSessionData(coll, conversation_id, raises) ==
    IF raises THEN coll
    ELSE {r \in coll : r.conversation_id # conversation_id}

\* the messages whose conversation_id is (same) or is not (~ same) the
\* given one, in their order
RECURSIVE MessagesWhere(_, _, _)
MessagesWhere(msgs, conversation_id, same) ==
    IF msgs = <<>> THEN <<>>
    ELSE IF (Head(msgs).conversation_id = conversation_id) = same
    THEN <<Head(msgs)>> \o MessagesWhere(Tail(msgs), conversation_id, same)
    ELSE MessagesWhere(Tail(msgs), conversation_id, same)

\* filter(Message.conversation_id == conversation_id)
MessagesOf(msgs, conversation_id) == MessagesWhere(msgs, conversation_id, TRUE)

\* ChatModels.py line 15: cascade="all, delete-orphan"
WithoutMessagesOf(msgs, conversation_id) ==
    MessagesWhere(msgs, conversation_id, FALSE)

\* a lookup by id alone
OwnedRowsAnyUser(rows, conversation_id, user_id) ==
    {row \in rows : row.id = conversation_id}

\* ChatHistoryService.py lines 81-84, 122-125, 164: the row with this id
\* and this owner
OwnedRows(rows, conversation_id, user_id) ==
    {row \in rows : row.id = conversation_id /\ row.user_id = user_id}

\* ChatHistoryService.py lines 160-182: the row is looked up by id and
\* owner; the database delete commits or raises; the session data are
\* deleted after the commit
DeleteConversation ==
    /\ se_op = "none"
    /\ \E c \in ConversationIds, u \in UserIds, db_raises \in BOOLEAN,
          store_raises \in BOOLEAN :
        LET rows == OwnedRows(conversations, c, u)
        IN /\ se_conversation_id' = c
           /\ se_user_id' = u
           /\ IF rows = {} \/ db_raises
              THEN /\ se_ret' = "False"
                   /\ se_store_raised' = FALSE
                   /\ se_delete_calls' = 0
                   /\ UNCHANGED <<conversations, messages, session_collection>>
              ELSE /\ conversations' = conversations \ rows
                   /\ messages' = WithoutMessagesOf(messages, c)
                   /\ session_collection' =
                        DeleteSessionData(session_collection, c, store_raises)
                   /\ se_store_raised' = store_raises
                   /\ se_delete_calls' = 1
                   /\ se_ret' = DeleteReturns(~ store_raises)
    /\ se_op' = "delete_conversation"
    /\ se_filename' = ""
    /\ se_before' = Tables
    /\ se_result' = NotRead
    /\ se_context' = {}
    /\ UNCHANGED notSe

SessionReturn ==
    /\ se_op # "none"
    /\ se_op' = "none"
    /\ se_conversation_id' = 0
    /\ se_user_id' = 0
    /\ se_filename' = ""
    /\ se_ret' = "pending"
    /\ se_store_raised' = FALSE
    /\ se_delete_calls' = 0
    /\ se_before' = NoTables
    /\ se_result' = NotRead
    /\ se_context' = {}
    /\ UNCHANGED <<session_collection, conversations, messages>>
    /\ UNCHANGED notSe

InitSession ==
    /\ session_collection = {}
    /\ conversations = {}
    /\ se_op = "none"
    /\ se_conversation_id = 0
    /\ se_user_id = 0
    /\ se_filename = ""
    /\ se_ret = "pending"
    /\ se_store_raised = FALSE
    /\ se_delete_calls = 0
    /\ messages = <<>>
    /\ se_before = NoTables
    /\ se_result = NotRead
    /\ se_context = {}

NextSession ==
    \/ AddSessionDocument
    \/ CreateConversation
    \/ DeleteConversation
    \/ SessionReturn

\* ------------------------------------------------------------------------
\* History reads (ChatHistoryService.py) and chat_endpoint (Chat.py) on the
\* same tables and session collection
\* ------------------------------------------------------------------------
MaxMessages == 2

\* messages[skip : skip + limit]
Page(msgs, skip, limit) == SubSeq(msgs, skip + 1, Min(skip + limit, Len(msgs)))

\* the last limit messages, oldest first
Recent(msgs, limit) == SubSeq(msgs, Max(1, Len(msgs) - limit + 1), Len(msgs))

\* ChatHistoryService.py lines 59-100
GetConversationHistory ==
    /\ se_op = "none"
    /\ \E c \in ConversationIds, u \in UserIds, skip \in {0, 1},
          limit \in {1, 50} :
        /\ se_conversation_id' = c
        /\ se_user_id' = u
        /\ se_result' =
             IF OwnedRows(conversations, c, u) = {}
             THEN [read |-> TRUE, none |-> TRUE, messages |-> <<>>,
                   total |-> 0]
             ELSE [read |-> TRUE, none |-> FALSE,
                   messages |-> Page(MessagesOf(messages, c), skip, limit),
                   total |-> Len(MessagesOf(messages, c))]
    /\ se_op' = "get_conversation_history"
    /\ se_before' = Tables
    /\ se_filename' = ""
    /\ se_ret' = "pending"
    /\ se_store_raised' = FALSE
    /\ se_delete_calls' = 0
    /\ se_context' = {}
    /\ UNCHANGED <<session_collection, conversations, messages>>
    /\ UNCHANGED notSe

\* ChatHistoryService.py lines 102-137
GetRecentMessages ==
    /\ se_op = "none"
    /\ \E c \in ConversationIds, u \in UserIds, limit \in {1, 8} :
        /\ se_conversation_id' = c
        /\ se_user_id' = u
        /\ se_result' =
             IF OwnedRows(conversations, c, u) = {}
             THEN [read |-> TRUE, none |-> TRUE, messages |-> <<>>,
                   total |-> 0]
             ELSE [read |-> TRUE, none |-> FALSE,
                   messages |-> Recent(MessagesOf(messages, c), limit),
                   total |-> 0]
    /\ se_op' = "get_recent_messages"
    /\ se_before' = Tables
    /\ se_filename' = ""
    /\ se_ret' = "pending"
    /\ se_store_raised' = FALSE
    /\ se_delete_calls' = 0
    /\ se_context' = {}
    /\ UNCHANGED <<session_collection, conversations, messages>>
    /\ UNCHANGED notSe

\* KnowledgeBaseService.py lines 339-352: up to n_results chunks tagged with
\* the conversation, or nothing when the store raises
QuerySession(coll, conversation_id, n, raises) ==
    LET tagged == {r \in coll : r.conversation_id = conversation_id}
    IN IF raises THEN {{}}
       ELSE {found \in SUBSET tagged :
                Cardinality(found) = Min(n, Cardinality(tagged))}

\* Chat.py lines 59, 96, 173, 211, 259: "if conversation_id"
ChatUsesConversation(rows, conversation_id, user_id) == conversation_id # 0

\* Chat.py lines 26-264, chat_endpoint with a message, with or without an
\* attached file, with or without a conversation_id (0 = none): the user
\* message and the file's chunks are stored, the session chunks of the
\* conversation and its recent messages are put in the prompt, and the
\* answer, when there is one, is stored
ChatRequest ==
    /\ se_op = "none"
    /\ \E u \in UserIds, c \in ConversationIds \cup {0}, has_file \in BOOLEAN,
          extracted \in BOOLEAN, answered \in BOOLEAN,
          upsert_raises \in BOOLEAN, query_raises_ \in BOOLEAN,
          nonce \in [1..1 -> Nonces] :
        LET uses == ChatUsesConversation(conversations, c, u)
            stores_file == has_file /\ extracted /\ uses
            user_msg == IF (~ has_file \/ extracted) /\ uses
                        THEN <<[conversation_id |-> c, role |-> "user"]>>
                        ELSE <<>>
            answer == IF answered /\ uses
                      THEN <<[conversation_id |-> c, role |-> "assistant"]>>
                      ELSE <<>>
            recs == IF stores_file /\ ~ upsert_raises
                    THEN SessionRecords(c, "a.pdf", 500, nonce)
                    ELSE {}
            stored == UpsertAll(session_collection, recs)
            recent == Recent(MessagesOf(messages \o user_msg, c), 8)
        IN /\ Len(messages) + Len(user_msg) + Len(answer) <= MaxMessages
           /\ Cardinality(stored) <= MaxStored
           /\ se_conversation_id' = c
           /\ se_user_id' = u
           /\ se_filename' = IF has_file THEN "a.pdf" ELSE ""
           /\ session_collection' = stored
           /\ messages' = messages \o user_msg \o answer
           /\ \E found \in (IF uses
                            THEN QuerySession(stored, c, 5, query_raises_)
                            ELSE {{}}) :
                se_context' = found
           /\ se_result' =
                IF ~ uses THEN NotRead
                ELSE IF OwnedRows(conversations, c, u) = {}
                THEN [read |-> TRUE, none |-> TRUE, messages |-> <<>>,
                      total |-> 0]
                ELSE [read |-> TRUE, none |-> FALSE, messages |-> recent,
                      total |-> 0]
           /\ se_store_raised' = (upsert_raises /\ stores_file)
    /\ se_op' = "chat_endpoint"
    /\ se_before' = Tables
    /\ se_ret' = "pending"
    /\ se_delete_calls' = 0
    /\ UNCHANGED conversations
    /\ UNCHANGED notSe

NextHistory ==
    \/ CreateConversation
    \/ ChatRequest
    \/ GetConversationHistory
    \/ GetRecentMessages
    \/ DeleteConversation
    \/ SessionReturn

\* ------------------------------------------------------------------------
\* chunk_text (IngestionService.py); a string is a sequence of characters
\* ------------------------------------------------------------------------
MaxTextLen == 4
MaxChunkSize == 3

Alphabet == {"a", "b", ".", " ", "\n", "\r"}
Texts == UNION {[1..n -> Alphabet] : n \in 0..MaxTextLen}

\* line 18
Separators == << <<"\n", "\n">>, <<"\n">>, <<".", " ">>, <<" ">> >>

\* the characters str.strip() removes
Whitespace == {" ", "\n", "\r"}

RECURSIVE LStrip(_)
LStrip(s) ==
    IF s # <<>> /\ Head(s) \in Whitespace THEN LStrip(Tail(s)) ELSE s

RECURSIVE RStrip(_)
RStrip(s) ==
    IF s # <<>> /\ s[Len(s)] \in Whitespace
    THEN RStrip(SubSeq(s, 1, Len(s) - 1))
    ELSE s

\* str.strip()
Strip(s) == RStrip(LStrip(s))

\* line 55: text.replace('\r', '')
RECURSIVE RemoveCR(_)
RemoveCR(s) ==
    IF s = <<>> THEN <<>>
    ELSE IF Head(s) = "\r" THEN RemoveCR(Tail(s))
    ELSE <<Head(s)>> \o RemoveCR(Tail(s))

StartsWith(s, sep) == Len(s) >= Len(sep) /\ SubSeq(s, 1, Len(sep)) = sep

\* text.split(sep): cut at the occurrences of sep found from the left
RECURSIVE SplitFrom(_, _, _)
SplitFrom(s, sep, piece) ==
    IF s = <<>> THEN <<piece>>
    ELSE IF StartsWith(s, sep)
         THEN <<piece>> \o SplitFrom(SubSeq(s, Len(sep) + 1, Len(s)), sep, <<>>)
         ELSE SplitFrom(Tail(s), sep, Append(piece, Head(s)))

Split(s, sep) == SplitFrom(s, sep, <<>>)

\* a slicing loop that moves on by one character
SliceStepOne(chunk_size, overlap) == 1

\* line 27: start += chunk_size - overlap
SliceStep(chunk_size, overlap) == chunk_size - overlap

\* lines 24-27: text[start:start+chunk_size] while start < len(text)
RECURSIVE HardSliceFrom(_, _, _, _)
HardSliceFrom(text, start, chunk_size, overlap) ==
    IF start < Len(text)
    THEN <<SubSeq(text, start + 1, Min(start + chunk_size, Len(text)))>>
           \o HardSliceFrom(text, start + SliceStep(chunk_size, overlap),
                            chunk_size, overlap)
    ELSE <<>>

\* lines 38-39 and 49-50: "if current_chunk: final_chunks.append(current_chunk.strip())"
Flush(final_chunks, current_chunk) ==
    IF current_chunk # <<>>
    THEN Append(final_chunks, Strip(current_chunk))
    ELSE final_chunks

\* lines 19-52. The result is the returned list together with the pieces
\* that reached the base case, each with the slices made of it.
RECURSIVE SplitTextRecursive(_, _, _, _)
RECURSIVE SplitLoop(_, _, _, _, _, _, _, _)
SplitLoop(splits, k, current_chunk, final_chunks, hard, separators, chunk_size, overlap) ==
    IF k > Len(splits)
    THEN [chunks |-> Flush(final_chunks, current_chunk), hard |-> hard]
    ELSE LET s == splits[k]
             sep == separators[1]
         IN IF Len(current_chunk) + Len(s) + Len(sep) <= chunk_size
            THEN SplitLoop(splits, k + 1, current_chunk \o s \o sep,
                           final_chunks, hard, separators, chunk_size, overlap)
            ELSE IF Len(s) > chunk_size
            THEN LET sub == SplitTextRecursive(s, Tail(separators),
                                               chunk_size, overlap)
                 IN SplitLoop(splits, k + 1, <<>>,
                              Flush(final_chunks, current_chunk) \o sub.chunks,
                              hard \o sub.hard, separators, chunk_size, overlap)
            ELSE SplitLoop(splits, k + 1, s \o sep,
                           Flush(final_chunks, current_chunk), hard,
                           separators, chunk_size, overlap)

SplitTextRecursive(text, separators, chunk_size, overlap) ==
    IF separators = <<>>
    THEN LET slices == HardSliceFrom(text, 0, chunk_size, overlap)
         IN [chunks |-> slices,
             hard |-> <<[piece |-> text, slices |-> slices]>>]
    ELSE SplitLoop(Split(text, separators[1]), 1, <<>>, <<>>, <<>>,
                   separators, chunk_size, overlap)

NoChunks == [chunks |-> <<>>, hard |-> <<>>]

\* lines 11-56
ChunkText(text, chunk_size, overlap) ==
    IF text = <<>> THEN NoChunks
    ELSE SplitTextRecursive(RemoveCR(text), Separators, chunk_size, overlap)

ChunkTextCall ==
    /\ ch_op = "none"
    /\ \E text \in Texts, chunk_size \in 1..MaxChunkSize :
        \E overlap \in 0..(chunk_size - 1) :
            LET out == ChunkText(text, chunk_size, overlap)
            IN /\ ch_text' = text
               /\ ch_size' = chunk_size
               /\ ch_overlap' = overlap
               /\ ch_result' = out.chunks
               /\ ch_hard' = out.hard
    /\ ch_op' = "returned"
    /\ UNCHANGED notCh

ChunkerReturn ==
    /\ ch_op = "returned"
    /\ ch_op' = "none"
    /\ ch_text' = <<>>
    /\ ch_size' = 1
    /\ ch_overlap' = 0
    /\ ch_result' = <<>>
    /\ ch_hard' = <<>>
    /\ UNCHANGED notCh

InitChunker ==
    /\ ch_op = "none"
    /\ ch_text = <<>>
    /\ ch_size = 1
    /\ ch_overlap = 0
    /\ ch_result = <<>>
    /\ ch_hard = <<>>

NextChunker == ChunkTextCall \/ ChunkerReturn

\* ------------------------------------------------------------------------
\* CSRF tokens (Utils/CSRF.py); the clock counts half hours and never goes
\* back
\* ------------------------------------------------------------------------
MaxTime == 4

\* line 10: timedelta(hours=1)
CsrfTokenExpiry == 2

\* values of secrets.token_urlsafe(32); two draws may coincide
CsrfTokens == {"t1", "t2"}

\* what a request carries in X-CSRF-Token: nothing, or a string
NoToken == [given |-> FALSE, text |-> ""]
Presented ==
    {NoToken} \cup [given : {TRUE}, text : CsrfTokens \cup {"", "forged"}]

Methods == {"GET", "HEAD", "OPTIONS", "POST", "DELETE"}

EmptyDict == [t \in {} |-> 0]

\* d[key] = value
DictSet(d, key, value) ==
    [t \in DOMAIN d \cup {key} |-> IF t = key THEN value ELSE d[t]]

\* del d[key] for every key of keys
DictDel(d, keys) == [t \in DOMAIN d \ keys |-> d[t]]

\* a token that is dead at its expiry time already
ExpiredAtExpiry(time, expiry) == time >= expiry

\* lines 37 and 48: now > expiry
Expired(time, expiry) == time > expiry

\* lines 20-43: the returned value and the dict afterwards
ValidateCsrfToken(tokens, token, time) ==
    IF ~ token.given \/ token.text = ""
    THEN [ok |-> FALSE, tokens |-> tokens]
    ELSE IF token.text \notin DOMAIN tokens
    THEN [ok |-> FALSE, tokens |-> tokens]
    ELSE IF Expired(time, tokens[token.text])
    THEN [ok |-> FALSE, tokens |-> DictDel(tokens, {token.text})]
    ELSE [ok |-> TRUE, tokens |-> tokens]

\* lines 13-17
GenerateCsrfToken ==
    /\ cs_op = "none"
    /\ \E token \in CsrfTokens :
        /\ csrf_tokens' = DictSet(csrf_tokens, token, now + CsrfTokenExpiry)
        /\ issued' = DictSet(issued, token, now)
        /\ cs_token' = [given |-> TRUE, text |-> token]
    /\ cs_op' = "generate"
    /\ cs_method' = ""
    /\ cs_accepted' = FALSE
    /\ cs_before' = csrf_tokens
    /\ UNCHANGED now
    /\ UNCHANGED notCs

\* validate_csrf_token called on its own
ValidateCall ==
    /\ cs_op = "none"
    /\ \E token \in Presented :
        LET out == ValidateCsrfToken(csrf_tokens, token, now)
        IN /\ cs_token' = token
           /\ cs_accepted' = out.ok
           /\ csrf_tokens' = out.tokens
    /\ cs_op' = "validate"
    /\ cs_method' = ""
    /\ cs_before' = csrf_tokens
    /\ UNCHANGED <<now, issued>>
    /\ UNCHANGED notCs

\* line 59
SkipsCsrf(method) == method \in {"GET", "HEAD", "OPTIONS"}

\* lines 52-76: returns, or raises HTTPException 403
VerifyCsrf ==
    /\ cs_op = "none"
    /\ \E method \in Methods, token \in Presented :
        LET out == ValidateCsrfToken(csrf_tokens, token, now)
        IN /\ cs_method' = method
           /\ cs_token' = token
           /\ IF SkipsCsrf(method)
              THEN /\ cs_accepted' = TRUE
                   /\ UNCHANGED csrf_tokens
              ELSE /\ cs_accepted' = out.ok
                   /\ csrf_tokens' = out.tokens
    /\ cs_op' = "verify"
    /\ cs_before' = csrf_tokens
    /\ UNCHANGED <<now, issued>>
    /\ UNCHANGED notCs

\* lines 46-51
CleanupExpiredTokens ==
    /\ cs_op = "none"
    /\ csrf_tokens' =
         DictDel(csrf_tokens,
                 {t \in DOMAIN csrf_tokens : Expired(now, csrf_tokens[t])})
    /\ cs_op' = "cleanup"
    /\ cs_method' = ""
    /\ cs_token' = NoToken
    /\ cs_accepted' = FALSE
    /\ cs_before' = csrf_tokens
    /\ UNCHANGED <<now, issued>>
    /\ UNCHANGED notCs

CsrfReturn ==
    /\ cs_op # "none"
    /\ cs_op' = "none"
    /\ cs_method' = ""
    /\ cs_token' = NoToken
    /\ cs_accepted' = FALSE
    /\ cs_before' = EmptyDict
    /\ UNCHANGED <<csrf_tokens, now, issued>>
    /\ UNCHANGED notCs

\* time passes between calls
Tick ==
    /\ cs_op = "none"
    /\ now < MaxTime
    /\ now' = now + 1
    /\ UNCHANGED <<csrf_tokens, issued, cs_op, cs_method, cs_token,
                   cs_accepted, cs_before>>
    /\ UNCHANGED notCs

\* line 8
InitCsrf ==
    /\ csrf_tokens = EmptyDict
    /\ now = 0
    /\ issued = EmptyDict
    /\ cs_op = "none"
    /\ cs_method = ""
    /\ cs_token = NoToken
    /\ cs_accepted = FALSE
    /\ cs_before = EmptyDict

NextCsrf ==
    \/ GenerateCsrfToken
    \/ ValidateCall
    \/ VerifyCsrf
    \/ CleanupExpiredTokens
    \/ CsrfReturn
    \/ Tick

\* ------------------------------------------------------------------------
\* FileValidator.sanitize_filename (Utils/FileValidator.py); a filename is
\* a sequence of characters
\* ------------------------------------------------------------------------
MaxNameLen == 4

Dot == "."
Slash == "/"
Backslash == "\\"
Nul == "NUL"

NameAlphabet == {"a", Dot, Slash, Backslash, Nul}
UploadNames == UNION {[1..n -> NameAlphabet] : n \in 0..MaxNameLen}

\* os.path.basename of posixpath: what follows the last "/"
RECURSIVE Basename(_)
Basename(s) ==
    IF s = <<>> THEN <<>>
    ELSE IF s[Len(s)] = Slash THEN <<>>
    ELSE Append(Basename(SubSeq(s, 1, Len(s) - 1)), s[Len(s)])

\* str.replace(old, ""): the occurrences found from the left are dropped
RECURSIVE Remove(_, _)
Remove(s, old) ==
    IF s = <<>> THEN <<>>
    ELSE IF StartsWith(s, old) THEN Remove(SubSeq(s, Len(old) + 1, Len(s)), old)
    ELSE <<Head(s)>> \o Remove(Tail(s), old)

\* lines 40-43: .replace("..", "").replace("/", "").replace("\\", "") and
\* then .replace("\x00", "")
RemoveTraversal(s) ==
    Remove(Remove(Remove(Remove(s, <<Dot, Dot>>), <<Slash>>), <<Backslash>>),
           <<Nul>>)

\* lines 25-49
SanitizeFilename(name) ==
    LET safe_name == RemoveTraversal(Basename(name))
    IN [raised |-> safe_name = <<>>, safe_name |-> safe_name]

SanitizeCall ==
    /\ fv_op = "none"
    /\ \E name \in UploadNames :
        LET out == SanitizeFilename(name)
        IN /\ fv_filename' = name
           /\ fv_raised' = out.raised
           /\ fv_result' = out.safe_name
    /\ fv_op' = "returned"
    /\ UNCHANGED notFv

SanitizeReturn ==
    /\ fv_op = "returned"
    /\ fv_op' = "none"
    /\ fv_filename' = <<>>
    /\ fv_raised' = FALSE
    /\ fv_result' = <<>>
    /\ UNCHANGED notFv

InitSanitize ==
    /\ fv_op = "none"
    /\ fv_filename = <<>>
    /\ fv_raised = FALSE
    /\ fv_result = <<>>

NextSanitize == SanitizeCall \/ SanitizeReturn

\* ------------------------------------------------------------------------
\* auto_ingest_existing_files (IngestionService.py) over the knowledge-base
\* collection: each run takes every file of the Raw folder, skips those
\* is_file_ingested reports, and calls ingest_file on the others
\* ------------------------------------------------------------------------
MaxRuns == 3

\* chunks of each file of the Raw folder; the files do not change
RawChunks(file) == IF file = "a.pdf" THEN 3 ELSE 1

NoFile ==
    [file |-> "", get_raised |-> FALSE, skipped |-> FALSE,
     extracted |-> "none", success |-> "none", failed |-> {}, before |-> {}]

\* a check that never reports a file
IsFileIngestedNever(coll, file, raises) == FALSE

\* lines 125-135: collection.get(where={"source": filename}, limit=1) gave
\* an id; False when the get raises
IsFileIngested(coll, file, raises) ==
    IF raises THEN FALSE ELSE {r \in coll : r.source = file} # {}

\* lines 92-104 for the chunks j..total-1: each batch of one chunk is
\* upserted unless its request fails
RECURSIVE StoreBatches(_, _, _, _, _)
StoreBatches(coll, file, j, total, failing) ==
    IF j >= total THEN coll
    ELSE StoreBatches(IF j \in failing THEN coll
                      ELSE Upsert(coll, ChunkRecord(file, "old", j)),
                      file, AfterFailedBatch(j, total), total, failing)

\* lines 81-83, 106, 108-109: False when extraction raises or gives blank text
IngestFileSuccess(extracted) == IF extracted = "text" THEN "True" ELSE "False"

\* lines 138-160: the run starts and lists the files of the Raw folder
AutoIngestStart ==
    /\ au_pc = "idle"
    /\ au_runs < MaxRuns
    /\ au_pc' = "running"
    /\ au_todo' = Sources
    /\ au_runs' = au_runs + 1
    /\ au_last' = NoFile
    /\ UNCHANGED stVars
    /\ UNCHANGED notStAu

\* lines 163-181, one turn of the loop: the file is skipped when
\* is_file_ingested reports it, and given to ingest_file (lines 59-109)
\* otherwise
AutoIngestFile ==
    /\ au_pc = "running"
    /\ \E file \in au_todo, check_raises \in BOOLEAN,
          extracted \in {"raises", "blank", "text"},
          failing \in SUBSET (0..(MaxChunks - 1)) :
        LET skip == IsFileIngested(collection, file, check_raises)
            stores == ~ skip /\ extracted = "text"
        IN /\ failing \subseteq 0..(RawChunks(file) - 1)
           /\ skip => (extracted = "text" /\ failing = {})
           /\ ~ stores => failing = {}
           /\ au_todo' = au_todo \ {file}
           /\ collection' =
                IF stores
                THEN StoreBatches(collection, file, 0, RawChunks(file), failing)
                ELSE collection
           /\ au_last' =
                [file |-> file, get_raised |-> check_raises, skipped |-> skip,
                 extracted |-> IF skip THEN "none" ELSE extracted,
                 success |-> IF skip THEN "none"
                             ELSE IngestFileSuccess(extracted),
                 failed |-> failing,
                 before |-> {r \in collection : r.source = file}]
    /\ UNCHANGED <<au_pc, au_runs>>
    /\ UNCHANGED <<ing_pc, ing_file, ing_version, ing_total, ing_i,
                   ing_attempted, ing_failed, ing_prev, ing_ret>>
    /\ UNCHANGED <<nb_op, nb_filename, nb_index, nb_window, nb_fetched,
                   nb_raised, nb_result>>
    /\ UNCHANGED notStAu

\* line 183: every file was taken
AutoIngestEnd ==
    /\ au_pc = "running"
    /\ au_todo = {}
    /\ au_pc' = "idle"
    /\ au_last' = NoFile
    /\ UNCHANGED <<au_todo, au_runs>>
    /\ UNCHANGED stVars
    /\ UNCHANGED notStAu

InitAutoIngest ==
    /\ au_pc = "idle"
    /\ au_todo = {}
    /\ au_runs = 0
    /\ au_last = NoFile

NextAutoIngest ==
    \/ AutoIngestStart
    \/ AutoIngestFile
    \/ AutoIngestEnd

Init == InitHybrid /\ InitClassifier /\ InitThresholds /\ InitCache /\ InitStore /\ InitSession /\ InitChunker /\ InitCsrf /\ InitSanitize /\ InitAutoIngest

SpecThresholds == Init /\ [][NextThresholds]_vars

NextHybrid == SearchHybrid \/ RrfMergeCall \/ HybridReturn

SpecHybrid == Init /\ [][NextHybrid]_vars

NextClassifier ==
    \/ AnalyzeTooShort
    \/ AnalyzeEmbeddingFails
    \/ AnalyzeTier2
    \/ Tier3
    \/ AnalyzeReturn

SpecClassifier == Init /\ [][NextClassifier]_vars

SpecCache == Init /\ [][NextCache]_vars

SpecStore == Init /\ [][NextStore]_vars

SpecSession == Init /\ [][NextSession]_vars

SpecHistory == Init /\ [][NextHistory]_vars

SpecChunker == Init /\ [][NextChunker]_vars

SpecCsrf == Init /\ [][NextCsrf]_vars

SpecSanitize == Init /\ [][NextSanitize]_vars

SpecAutoIngest == Init /\ [][NextAutoIngest]_vars

\* ------------------------------------------------------------------------
\* Reciprocal Rank Fusion as the specification defines it
\* ------------------------------------------------------------------------
RefRank(list, id) == (CHOOSE i \in 1..Len(list) : list[i] = id) - 1

RefContribution(list, id, k) ==
    IF id \in Range(list) THEN <<1, k + RefRank(list, id) + 1>> ELSE RatZero

RefScore(id, sem, lex, k) ==
    RatAdd(RefContribution(sem, id, k), RefContribution(lex, id, k))

IsRrfRanking(out, sem, lex, limit, k) ==
    LET all == Range(sem) \cup Range(lex)
    IN /\ Len(out) = Min(limit, Cardinality(all))
       /\ Range(out) \subseteq all
       /\ \A i, j \in 1..Len(out) : i # j => out[i] # out[j]
       /\ \A i, j \in 1..Len(out) :
            i < j => ~ RatGT(RefScore(out[j], sem, lex, k),
                              RefScore(out[i], sem, lex, k))
       /\ \A x \in all \ Range(out) : \A i \in 1..Len(out) :
            ~ RatGT(RefScore(x, sem, lex, k), RefScore(out[i], sem, lex, k))

\* position at which an id is first seen: the semantic list, then the lexical
FirstSeen(id, sem, lex) ==
    IF id \in Range(sem) THEN RefRank(sem, id)
    ELSE Len(sem) + RefRank(lex, id)

\* the two lists a call hands to _rrf_merge
MergedSem == IF hy_op = "search_hybrid" THEN Take(semantic, n_results * 2)
             ELSE semantic
MergedLex == IF hy_op = "search_hybrid" /\ get_raises THEN <<>> ELSE lexical
Merged == \/ hy_op = "_rrf_merge"
          \/ hy_op = "search_hybrid" /\ 1 \notin query_raises

\* ------------------------------------------------------------------------
\* Claims: hybrid search
\* ------------------------------------------------------------------------
\* C1: whenever the semantic query raises, search_hybrid raises nothing and
\* returns the lexical-only ranking truncated to n_results (the empty result
\* when the exact search fails as well).
C1_SemanticFailureGivesLexicalOnly ==
    (hy_op = "search_hybrid" /\ 1 \in query_raises) =>
        /\ ~ hy_raised
        /\ hy_result = <<Take(IF get_raises THEN <<>> ELSE lexical, n_results)>>

\* C2: whenever the vector store raises inside search_exact and the semantic
\* query succeeds, search_hybrid raises nothing and returns exactly the first
\* n_results ids of the semantic list, in semantic order.
C2_LexicalFailureGivesSemanticOnly ==
    (hy_op = "search_hybrid" /\ get_raises /\ 1 \notin query_raises) =>
        /\ ~ hy_raised
        /\ hy_result = <<Take(Take(semantic, n_results * 2), n_results)>>

C2_Witness ==
    /\ hy_op = "search_hybrid" /\ get_raises /\ 1 \notin query_raises
    /\ 2 \in query_raises
    /\ lexical # <<>>
    /\ Len(semantic) > n_results
    /\ ~ hy_raised
    /\ hy_result = <<Take(semantic, n_results)>>

\* C3: the ids _rrf_merge returns are the distinct ids of both lists, each
\* once, in descending order of the reference RRF score (sum over the lists
\* containing the id of 1/(k + rank + 1)), truncated to limit; semantic
\* [A,B], lexical [B,C], k = 1, limit = 3 gives [B,A,C].
C3_RrfMergeIsReferenceRrf ==
    Merged =>
        /\ Len(hy_result) = 1
        /\ IsRrfRanking(hy_result[1], MergedSem, MergedLex, n_results, rrf_k)
        /\ (hy_op = "_rrf_merge" /\ semantic = <<1, 2>> /\ lexical = <<2, 3>>
            /\ rrf_k = TestK /\ n_results = 3) => hy_result = <<<<2, 1, 3>>>>

C3_Witness ==
    /\ hy_op = "_rrf_merge" /\ semantic = <<1, 2>> /\ lexical = <<2, 3>>
    /\ rrf_k = TestK /\ n_results = 3
    /\ hy_result = <<<<2, 1, 3>>>>

\* C4: two ids with equal fused score appear in the output in first-seen
\* input order, every id of the semantic list being seen before any id that
\* occurs only in the lexical list.
C4_TiesKeepFirstSeenOrder ==
    Merged =>
        \A i, j \in 1..Len(hy_result[1]) :
            (i < j /\ RatEq(RefScore(hy_result[1][i], MergedSem, MergedLex, rrf_k),
                            RefScore(hy_result[1][j], MergedSem, MergedLex, rrf_k)))
            => FirstSeen(hy_result[1][i], MergedSem, MergedLex)
                 < FirstSeen(hy_result[1][j], MergedSem, MergedLex)

C4_Witness ==
    /\ hy_op = "_rrf_merge" /\ semantic = <<1>> /\ lexical = <<3>>
    /\ n_results >= 2
    /\ hy_result = <<<<1, 3>>>>

\* ------------------------------------------------------------------------
\* Claims: document classifier
\* ------------------------------------------------------------------------
\* a classification is in hand (the call record is cleared on return)
InCall == cl_pc # "idle"

ShortDocument == doc_text.blank + doc_text.body = 0 \/ doc_text.body < MinDocLen

\* C5 as stated: a document that is empty or whose stripped length is below
\* 50 ends the call immediately with standard_id absent, confidence none and
\* tier 0.
C5_Tier0ConfidenceNone ==
    (InCall /\ ShortDocument) =>
        /\ cl_pc = "done"
        /\ result.standard_id = None
        /\ result.confidence = "none"
        /\ result.tier = 0

\* C5 amended: a document that is empty or whose stripped length is below 50
\* ends the call immediately, with no embedding or chat-completion request,
\* with standard_id absent, confidence low and tier 0.
C5_Tier0ConfidenceLow ==
    (InCall /\ ShortDocument) =>
        /\ cl_pc = "done"
        /\ llm_calls = 0
        /\ confidence = "unset"
        /\ result.standard_id = None
        /\ result.confidence = "low"
        /\ result.tier = 0

C5_Witness ==
    /\ cl_pc = "done"
    /\ doc_text = [blank |-> 2, body |-> MinDocLen - 1]
    /\ filename \in Standards
    /\ result.tier = 0
    /\ result.confidence = "low"

\* Tier 2 has evaluated its thresholds in this call
Tier2Evaluated == InCall /\ confidence \in {"high", "medium", "low", "none"}

\* highest similarity among the cached standards (-1 when there is none)
MaxSim ==
    IF DOMAIN sims = {} THEN -1000
    ELSE CHOOSE v \in Scores : /\ \E x \in DOMAIN sims : sims[x] = v
                               /\ \A x \in DOMAIN sims : sims[x] <= v

\* C6: with b the (possibly boosted) best score and m the margin, Tier 2
\* assigns high if b > 0.82 or (b > 0.78 and m > 0.05), else medium if
\* b > 0.72 or (b > 0.68 and m > 0.03), else low if b > 0.60, else nothing
\* and the cascade goes on to Tier 3; an assigned confidence is returned with
\* tier 2 and the best-scoring standard.
C6_Tier2Thresholds ==
    Tier2Evaluated =>
        LET b == best_score
            m == confidence_margin
        IN /\ b = MaxSim + (IF filename_hint # None /\ filename_hint = best_match
                            THEN Boost ELSE 0)
           /\ (confidence = "high") <=> (b > 820 \/ (b > 780 /\ m > 50))
           /\ (confidence = "medium") <=>
                (/\ ~ (b > 820 \/ (b > 780 /\ m > 50))
                 /\ (b > 720 \/ (b > 680 /\ m > 30)))
           /\ (confidence = "low") <=>
                (/\ ~ (b > 820 \/ (b > 780 /\ m > 50))
                 /\ ~ (b > 720 \/ (b > 680 /\ m > 30))
                 /\ b > 600)
           /\ confidence # "none" =>
                /\ cl_pc = "done"
                /\ result.tier = 2
                /\ result.confidence = confidence
                /\ result.standard_id = best_match
                /\ best_match \in DOMAIN sims
                /\ sims[best_match] = MaxSim
           /\ confidence = "none" =>
                /\ llm_calls = 1
                /\ cl_pc = "tier3" \/ (cl_pc = "done" /\ result.tier = 3)

\* a boosted 0.79 with margin above 0.05 is high
C6_Witness ==
    /\ Tier2Evaluated
    /\ best_score = 790
    /\ MaxSim = 710
    /\ confidence_margin > 50
    /\ result.confidence = "high"
    /\ result.tier = 2

\* C7: when Tier 2 assigns a confidence (in particular on a score above
\* 0.82) no chat completion is invoked in the call; one is invoked only after
\* Tier 2 assigned no confidence or failed.
C7_LlmOnlyAfterTier2GaveNothing ==
    /\ llm_calls > 0 => confidence \in {"none", "failed"}
    /\ confidence \in {"high", "medium", "low"} =>
            (llm_calls = 0 /\ llm_response = NoResponse /\ cl_pc = "done")
    /\ (Tier2Evaluated /\ best_score > 820) => llm_calls = 0

C7_Witness ==
    /\ Tier2Evaluated
    /\ best_score > 820
    /\ confidence = "high"
    /\ cl_pc = "done"
    /\ llm_calls = 0

WellFormed(r) ==
    /\ DOMAIN r = {"standard_id", "confidence", "reasoning", "tier"}
    /\ r.confidence \in {"high", "medium", "low", "none"}
    /\ r.tier \in 0..3

\* C8: every call returns a dict with the fields standard_id, confidence,
\* reasoning and tier, confidence in {high, medium, low, none}, tier in 0..3.
C8_ResultWellFormed ==
    cl_pc = "done" => WellFormed(result)

\* the text holds a JSON object: braces around key/value groups only
HoldsJsonObject(text) ==
    \E i, j \in 1..Len(text) :
        /\ i < j
        /\ text[i] = "{" /\ text[j] = "}"
        /\ \A m \in (i + 1)..(j - 1) : text[m] \in {"F", "B", "T"}

\* C9: if the chat completion fails or its response holds no parsable JSON
\* object, the result is standard_id none, confidence low, a reasoning that
\* names the failure, tier 3.
C9_Tier3FailureResult ==
    (cl_pc = "done" /\ llm_calls > 0
        /\ (llm_response.raised \/ ~ HoldsJsonObject(llm_response.text))) =>
        /\ DOMAIN result = {"standard_id", "confidence", "reasoning", "tier"}
        /\ result.standard_id = None
        /\ result.confidence = "low"
        /\ result.reasoning \in {"Could not parse LLM response",
                                 "LLM analysis error"}
        /\ result.tier = 3

C9_Witness ==
    /\ cl_pc = "done" /\ llm_calls > 0
    /\ llm_response = [raised |-> FALSE, text |-> <<"F", "}", "{">>]
    /\ result.reasoning = "Could not parse LLM response"
    /\ result.tier = 3

\* C10: no result has tier 1; the standard returned at Tier 2 is the one
\* with the highest similarity whatever id the filename holds, and the hint
\* changes nothing but the best score, by +0.08, when it names that standard.
C10_HintNeverDecides ==
    /\ cl_pc = "done" => (\A k \in DOMAIN result \cap {"tier"} : result[k] # 1)
    /\ (cl_pc = "done" /\ result.tier = 2) =>
        LET unhinted == Tier2(None, DOMAIN sims, sims)
        IN /\ result.standard_id \in DOMAIN sims
           /\ \A x \in DOMAIN sims : sims[x] <= sims[result.standard_id]
           /\ result.standard_id = unhinted.best_match
           /\ confidence_margin = unhinted.confidence_margin
           /\ best_score = unhinted.best_score
                    + (IF filename = result.standard_id THEN Boost ELSE 0)
    /\ (Tier2Evaluated /\ filename # best_match) =>
            confidence = Tier2(None, DOMAIN sims, sims).confidence

\* the filename names a standard that is not the best match: no effect
C10_Witness ==
    /\ cl_pc = "done" /\ result.tier = 2
    /\ filename \in DOMAIN sims
    /\ filename # result.standard_id
    /\ sims[filename] < sims[result.standard_id]
    /\ best_score = sims[result.standard_id]

\* ------------------------------------------------------------------------
\* Claims: threshold monotonicity
\* ------------------------------------------------------------------------
ConfRank(c) ==
    IF c = "high" THEN 3 ELSE IF c = "medium" THEN 2
    ELSE IF c = "low" THEN 1 ELSE 0

\* C11: at a fixed margin, a higher best score never gets a lower confidence
\* in the order none < low < medium < high.
C11_ThresholdsMonotone ==
    (th_op = "applied" /\ th_best <= th_higher) =>
        ConfRank(th_conf) <= ConfRank(th_conf_higher)

C11_Witness ==
    /\ th_op = "applied"
    /\ th_best < th_higher
    /\ th_margin > 50
    /\ th_conf = "medium"
    /\ th_conf_higher = "high"
    /\ th_higher <= 820

\* ------------------------------------------------------------------------
\* Claims: the standard-embedding cache
\* ------------------------------------------------------------------------
\* C12: the embeddings of the standards are computed exactly once, also when
\* several first callers are in flight together: the computing branch is
\* never entered twice, and it has been entered once as soon as the cache is
\* initialized or a caller holds the map.
C12_ComputedExactlyOnce ==
    /\ ca_init_runs <= 1
    /\ ca_initialized => ca_init_runs = 1
    /\ \A r \in Requests : ca_view[r].set => ca_init_runs = 1

C12_Witness ==
    /\ ca_init_runs = 1
    /\ \A r \in Requests : ca_first[r] /\ ca_view[r].set

\* C13: every map returned by _get_standard_embeddings, and the cache once
\* _embeddings_initialized is set, holds an embedding for every standard.
C13_CacheNeverPartial ==
    /\ ca_initialized => ca_embeddings = Standards
    /\ \A r \in Requests : ca_view[r].set => ca_view[r].keys = Standards

\* ------------------------------------------------------------------------
\* Claims: ingestion and neighbor retrieval on the knowledge-base collection
\* ------------------------------------------------------------------------
\* the chunk indices of the file in the collection
StoredIndices(file) == {r.chunk_index : r \in {x \in collection : x.source = file}}

\* C14: in ingest_file, whichever batches fail, every batch is attempted, in
\* increasing index order, and every batch that did not fail is stored under
\* the id and chunk_index of its position, so failures leave gaps and no
\* later chunk is renumbered; the call returns True.
C14_BatchIsolation ==
    ing_pc \in {"loop", "returned"} /\ ing_ret # "False" =>
        /\ ing_attempted = [k \in 1..ing_i |-> k - 1]
        /\ ing_failed \subseteq 0..(ing_i - 1)
        /\ \A j \in (0..(ing_i - 1)) \ ing_failed :
             ChunkRecord(ing_file, ing_version, j) \in collection
        /\ ing_pc = "returned" => ing_i = ing_total /\ ing_ret = "True"

C14_Witness ==
    /\ ing_pc = "returned"
    /\ ing_file = "a.pdf"
    /\ ing_total = 5
    /\ ing_failed = {0, 3}
    /\ StoredIndices("a.pdf") = {1, 2, 4}

\* C16: ingesting a (source, chunk_index) that the collection already holds
\* with another text leaves the number of stored ids as it was, and the
\* later text is the one the collection returns for that source and index.
C16_ReingestionReplaces ==
    (ing_pc \in {"loop", "returned"} /\ ing_prev.had
       /\ ing_prev.text # ChunkOf(ing_file, ing_version, ing_prev.index)) =>
        /\ Cardinality({r.id : r \in collection}) = ing_prev.count
        /\ Cardinality(collection) = ing_prev.count
        /\ {r.text : r \in Matching(collection, ing_file, {ing_prev.index})}
             = {ChunkOf(ing_file, ing_version, ing_prev.index)}

C16_Witness ==
    /\ ing_pc = "loop"
    /\ ing_prev.had
    /\ ing_prev.text = ChunkOf("a.pdf", "old", 1)
    /\ ing_prev.index = 1
    /\ ing_version = "new"
    /\ ing_i = 2
    /\ ing_failed = {}

\* the texts of the stored chunks of a source within a range, by ascending
\* chunk index
RECURSIVE TextsAscending(_, _, _)
TextsAscending(file, lo, hi) ==
    IF lo > hi THEN <<>>
    ELSE LET here == {r \in collection :
                         r.source = file /\ r.chunk_index = lo}
         IN (IF here = {} THEN <<>> ELSE <<(CHOOSE r \in here : TRUE).text>>)
              \o TextsAscending(file, lo + 1, hi)

\* C18: when the store answers, get_neighbors(source, index, window) returns
\* exactly the texts of the stored chunks of that source whose chunk_index
\* lies in [max(0, index - window), index + window], by ascending
\* chunk_index whatever order the store listed them in; absent indices are
\* left out and a source without chunks gives the empty list. When the
\* store raises, the result is the empty list.
C18_NeighborsInReadingOrder ==
    nb_op = "returned" =>
        /\ ~ nb_raised =>
             nb_result = TextsAscending(nb_filename,
                             Max(0, nb_index - nb_window), nb_index + nb_window)
        /\ nb_raised => nb_result = <<>>
        /\ StoredIndices(nb_filename) = {} => nb_result = <<>>

C18_Witness ==
    /\ nb_op = "returned"
    /\ ~ nb_raised
    /\ nb_filename = "a.pdf"
    /\ StoredIndices("a.pdf") = {0, 1, 2, 4}
    /\ nb_index = 2
    /\ nb_window = 1
    /\ Len(nb_fetched) = 2
    /\ nb_fetched[1].chunk_index = 2
    /\ nb_result = <<ChunkOf("a.pdf", "old", 1), ChunkOf("a.pdf", "new", 2)>>

\* ------------------------------------------------------------------------
\* Claims: the session collection
\* ------------------------------------------------------------------------
UniqueBySourceAndIndex(coll) ==
    \A r1 \in coll, r2 \in coll :
        (r1.source = r2.source /\ r1.chunk_index = r2.chunk_index) => r1 = r2

\* C15: after any sequence of ingestions and session uploads, the same
\* filename uploaded twice into one conversation included, no collection
\* holds two chunks with the same (source, chunk_index).
C15_ChunksUniquePerSourceAndIndex ==
    /\ UniqueBySourceAndIndex(collection)
    /\ UniqueBySourceAndIndex(session_collection)

\* C17: whenever delete_conversation returns True, delete_session_data was
\* called once and no chunk tagged with that conversation is left in the
\* session collection.
C17_DeletedConversationLeavesNoChunks ==
    (se_op = "delete_conversation" /\ se_ret = "True") =>
        /\ se_delete_calls = 1
        /\ \A r \in session_collection :
             r.conversation_id # se_conversation_id

\* ------------------------------------------------------------------------
\* Claims: chunk_text
\* ------------------------------------------------------------------------
\* C19: for every text and every chunk_size > overlap >= 0, every chunk
\* returned by chunk_text has length at most chunk_size.
C19_ChunksWithinChunkSize ==
    ch_op = "returned" =>
        \A k \in 1..Len(ch_result) : Len(ch_result[k]) <= ch_size

\* C20 as stated: of the slices of a hard-sliced piece only the last may be
\* shorter than chunk_size.
C20_OnlyLastSliceShorter ==
    ch_op = "returned" =>
        \A h \in Range(ch_hard) :
            \A k \in 1..(Len(h.slices) - 1) : Len(h.slices[k]) = ch_size

ShortSlices(h) == {k \in 1..Len(h.slices) : Len(h.slices[k]) < ch_size}

\* C20, amended: no slice of a hard-sliced piece is longer than chunk_size;
\* the slices shorter than chunk_size are the last ones of the piece, each
\* shorter than the one before it, and there are at most
\* ceil(chunk_size / (chunk_size - overlap)) of them; with overlap = 0 only
\* the last slice may be shorter.
C20_ShortSlicesAreTrailing ==
    ch_op = "returned" =>
        \A h \in Range(ch_hard) :
            /\ \A k \in 1..Len(h.slices) :
                 /\ Len(h.slices[k]) <= ch_size
                 /\ k \in ShortSlices(h) =>
                      \A k2 \in (k + 1)..Len(h.slices) :
                          Len(h.slices[k2]) < Len(h.slices[k])
                 /\ (k \in ShortSlices(h) /\ ch_overlap = 0) =>
                      k = Len(h.slices)
            /\ (Cardinality(ShortSlices(h)) - 1) * (ch_size - ch_overlap)
                 < ch_size

C20_Witness ==
    /\ ch_op = "returned"
    /\ ch_size = 3
    /\ ch_overlap = 2
    /\ Len(ch_hard) = 1
    /\ Len(ch_hard[1].piece) = 4
    /\ [k \in 1..Len(ch_hard[1].slices) |-> Len(ch_hard[1].slices[k])]
         = <<3, 3, 2, 1>>

\* ------------------------------------------------------------------------
\* Claims: chunk_text, reconstruction and empty chunks
\* ------------------------------------------------------------------------
RECURSIVE Concat(_)
Concat(seqs) == IF seqs = <<>> THEN <<>> ELSE Head(seqs) \o Concat(Tail(seqs))

RECURSIVE NonWhitespace(_)
NonWhitespace(s) ==
    IF s = <<>> THEN <<>>
    ELSE IF Head(s) \in Whitespace THEN NonWhitespace(Tail(s))
    ELSE <<Head(s)>> \o NonWhitespace(Tail(s))

\* C21: for a text that never reaches the hard-slice fallback, the chunks
\* returned by chunk_text, concatenated in order, are the text once
\* whitespace is ignored: no other character is added, dropped or reordered.
C21_ChunksReconstructText ==
    (ch_op = "returned" /\ ch_hard = <<>>) =>
        NonWhitespace(Concat(ch_result)) = NonWhitespace(ch_text)

\* C30: for every non-empty text every chunk returned by chunk_text is a
\* non-empty string.
C30_NoEmptyChunk ==
    (ch_op = "returned" /\ ch_text # <<>>) =>
        \A k \in 1..Len(ch_result) : ch_result[k] # <<>>

\* ------------------------------------------------------------------------
\* Claims: the call protocol of search_hybrid
\* ------------------------------------------------------------------------
\* C22: on a run without failures search_hybrid makes exactly one semantic
\* query, on query_text and asking for n_results * 2 results, and exactly
\* one exact search, on lexical_query when one is given (a string that is
\* not empty) and on query_text otherwise, and it returns at most n_results
\* ids.
C22_SearchHybridCallProtocol ==
    (hy_op = "search_hybrid" /\ query_raises = {} /\ ~ get_raises) =>
        /\ query_calls = <<n_results * 2>>
        /\ query_texts = <<query_text>>
        /\ Len(exact_calls) = 1
        /\ exact_calls[1] = IF lexical_query.given /\ lexical_query.text # ""
                            THEN lexical_query.text
                            ELSE query_text
        /\ ~ hy_raised
        /\ Len(hy_result) = 1
        /\ Len(hy_result[1]) <= n_results

C22_Witness ==
    /\ hy_op = "search_hybrid"
    /\ query_raises = {}
    /\ ~ get_raises
    /\ lexical_query = [given |-> TRUE, text |-> "lexical"]
    /\ exact_calls = <<"lexical">>
    /\ n_results = 1
    /\ Len(semantic) >= 2
    /\ Len(lexical) >= 2

\* ------------------------------------------------------------------------
\* Claims: CSRF tokens
\* ------------------------------------------------------------------------
\* the token was issued and the time is not past its issue time + 1 hour
IssuedAndFresh(token) ==
    /\ token.given
    /\ token.text \in DOMAIN issued
    /\ now <= issued[token.text] + CsrfTokenExpiry

\* a successful check leaves the token in the store
AcceptedTokenKept ==
    (cs_op \in {"validate", "verify"} /\ cs_accepted /\ cs_token.given
       /\ cs_token.text \in DOMAIN cs_before) =>
        /\ cs_token.text \in DOMAIN csrf_tokens
        /\ csrf_tokens[cs_token.text] = cs_before[cs_token.text]

\* cleanup keeps every token that has not expired and drops the others
CleanupKeepsUnexpired ==
    cs_op = "cleanup" =>
        /\ \A t \in DOMAIN cs_before :
             now <= cs_before[t] =>
                t \in DOMAIN csrf_tokens /\ csrf_tokens[t] = cs_before[t]
        /\ \A t \in DOMAIN csrf_tokens : now <= csrf_tokens[t]

\* C23 as stated: after any sequence of generate, validate / verify and
\* cleanup calls, validate_csrf_token and verify_csrf accept a token iff it
\* was issued and the time is not past its expiry; a successful check does
\* not consume it, cleanup removes no unexpired token, and a missing,
\* unknown or expired token is rejected.
C23_TokenAcceptedIffIssuedAndFresh ==
    /\ cs_op \in {"validate", "verify"} =>
         (cs_accepted <=> IssuedAndFresh(cs_token))
    /\ AcceptedTokenKept
    /\ CleanupKeepsUnexpired

\* C23, amended: the same for validate_csrf_token and for verify_csrf on a
\* request whose method is not GET, HEAD or OPTIONS; on those three methods
\* verify_csrf returns without looking at the token and changes nothing.
C23_TokenAcceptedIffFreshUnlessSafeMethod ==
    /\ (cs_op = "validate" \/ (cs_op = "verify" /\ ~ SkipsCsrf(cs_method))) =>
         (cs_accepted <=> IssuedAndFresh(cs_token))
    /\ (cs_op = "verify" /\ SkipsCsrf(cs_method)) =>
         cs_accepted /\ csrf_tokens = cs_before
    /\ AcceptedTokenKept
    /\ CleanupKeepsUnexpired

C23_Witness ==
    /\ cs_op = "verify"
    /\ cs_method = "POST"
    /\ cs_accepted
    /\ cs_token.text = "t1"
    /\ now = issued["t1"] + CsrfTokenExpiry
    /\ "t2" \in DOMAIN issued
    /\ "t2" \notin DOMAIN csrf_tokens

\* ------------------------------------------------------------------------
\* Claims: sanitize_filename
\* ------------------------------------------------------------------------
Contains(s, pat) ==
    \E i \in 1..Len(s) : StartsWith(SubSeq(s, i, Len(s)), pat)

\* C24: sanitize_filename raises ValidationError or returns a non-empty
\* name that holds no "..", no "/", no "\" and no NUL byte.
C24_SanitizedNameIsSafe ==
    (fv_op = "returned" /\ ~ fv_raised) =>
        /\ fv_result # <<>>
        /\ ~ Contains(fv_result, <<Dot, Dot>>)
        /\ ~ Contains(fv_result, <<Slash>>)
        /\ ~ Contains(fv_result, <<Backslash>>)
        /\ ~ Contains(fv_result, <<Nul>>)

\* ------------------------------------------------------------------------
\* Claims: conversation ownership and session scoping
\* ------------------------------------------------------------------------
\* the conversation of the call existed and belonged to its user
CallerOwnsConversation ==
    \E row \in se_before.conversations :
        row.id = se_conversation_id /\ row.user_id = se_user_id

\* C25: for a conversation that does not exist or is not owned by user_id,
\* get_conversation_history and get_recent_messages return None, and
\* delete_conversation returns False, deletes nothing from the database and
\* does not call delete_session_data.
C25_OnlyOwnerReadsOrDeletes ==
    ~ CallerOwnsConversation =>
        /\ se_op \in {"get_conversation_history", "get_recent_messages"} =>
             se_result.read /\ se_result.none
        /\ se_op = "delete_conversation" =>
             /\ se_ret = "False"
             /\ Tables = se_before
             /\ se_delete_calls = 0

C25_Witness ==
    /\ se_op = "delete_conversation"
    /\ se_user_id = 2
    /\ se_conversation_id = 1
    /\ [id |-> 1, user_id |-> 1] \in conversations
    /\ Len(MessagesOf(messages, 1)) = 2
    /\ se_ret = "False"


\* C27: a chat_endpoint request by user U with conversation_id c stores
\* messages and session chunks under c, and puts session chunks of c in the
\* prompt context, only if conversation c is owned by U.
C27_ChatKeepsToOwnConversations ==
    (/\ se_op = "chat_endpoint"
     /\ \E row \in se_before.conversations : row.id = se_conversation_id
     /\ ~ CallerOwnsConversation) =>
        /\ messages = se_before.messages
        /\ session_collection = se_before.session_collection
        /\ se_context = {}


\* ------------------------------------------------------------------------
\* Claims: the margin of Tier 2 and the filename boost
\* ------------------------------------------------------------------------
\* Tier 2 compared the document with at least one cached standard
Tier2Scored == confidence \in {"high", "medium", "low", "none"} /\ DOMAIN sims # {}

\* the best and second-best similarities of the call, before any boost
RawScan ==
    ScanScores(DOMAIN sims, sims, 1,
        [best_match |-> None, best_score |-> -1000,
         second_best_score |-> -1000])

HintConfirmed == filename_hint # None /\ filename_hint = best_match

\* C26: the margin tested by the Tier-2 thresholds is (boosted best score) -
\* (second-best score): when the filename hint confirms the best match the
\* 0.08 boost raises the margin as well as the best score.
C26_MarginTakenAfterBoost ==
    Tier2Scored =>
        /\ confidence_margin = best_score - RawScan.second_best_score
        /\ confidence =
             ConfidenceLevel(best_score, best_score - RawScan.second_best_score)

\* C26 as the code has it: the margin tested by the Tier-2 thresholds is
\* (best score before the boost) - (second-best score); the boost raises the
\* best score only.
C26_MarginTakenBeforeBoost ==
    Tier2Scored =>
        /\ best_score = RawScan.best_score
                          + (IF HintConfirmed THEN Boost ELSE 0)
        /\ confidence_margin = RawScan.best_score - RawScan.second_best_score
        /\ confidence =
             ConfidenceLevel(best_score,
                 RawScan.best_score - RawScan.second_best_score)

\* a confirmed hint whose boost would have made the match "high" had it
\* counted in the margin
C26_Witness ==
    /\ Tier2Scored
    /\ HintConfirmed
    /\ confidence = "medium"
    /\ ConfidenceLevel(best_score, best_score - RawScan.second_best_score)
         = "high"


\* ------------------------------------------------------------------------
\* Claims: the standard-embedding cache after a failed initialisation
\* ------------------------------------------------------------------------
\* once the flag is set, no step unsets it, changes the cached map or asks
\* the provider for a standard embedding
CacheFrozen ==
    embeddings_initialized =>
        /\ embeddings_initialized'
        /\ standard_embeddings' = standard_embeddings
        /\ embed_calls' = embed_calls

\* a call that found the flag set was given the cached map
LaterCallGetsCachedMap ==
    flag_at_call = "set" => DOMAIN sims = standard_embeddings

\* a call on a long enough document that finds an empty cached map goes on
\* to the chat completion of Tier 3
EmptyMapReachesTier3 ==
    (/\ cl_pc # "idle"
     /\ ~ TooShort(doc_text)
     /\ embeddings_initialized
     /\ standard_embeddings = {}) =>
        /\ llm_calls = 1
        /\ cl_pc = "done" => result.tier = 3

StoredOf(coll, file) == {r \in coll : r.source = file}

\* ingest_file returns success whenever text was extracted, whatever the
\* batches did
SuccessWheneverExtracted ==
    (au_last.file # "" /\ ~ au_last.skipped /\ au_last.extracted = "text") =>
        au_last.success = "True"

\* C28: ingest_file returns success whenever text was extracted, even if
\* some or all batch upserts failed, and once at least one chunk of a file is
\* stored is_file_ingested is true, so every later
\* auto_ingest_existing_files run skips the file and its missing chunk
\* indices are never written.
C28_PartialIngestionNeverRepaired ==
    /\ []SuccessWheneverExtracted
    /\ [][\A file \in Sources :
            StoredOf(collection, file) # {} =>
                StoredOf(collection', file) = StoredOf(collection, file)]_vars

\* C28 as the code has it: the same, for every run whose is_file_ingested
\* check of the file does not raise; when the check raises the file is
\* taken as not ingested and given to ingest_file again.
C28_PartialIngestionNotRepairedWhileCheckSucceeds ==
    /\ []SuccessWheneverExtracted
    /\ [](au_last.file # "" =>
            au_last.skipped =
                (~ au_last.get_raised /\ au_last.before # {}))
    /\ [][\A file \in Sources :
            (/\ StoredOf(collection, file) # {}
             /\ ~ (au_last'.file = file /\ au_last'.get_raised)) =>
                StoredOf(collection', file) = StoredOf(collection, file)]_vars

\* a later run has skipped a file of which only some chunks are stored
C28_Witness ==
    /\ au_runs >= 2
    /\ au_last.file = "a.pdf"
    /\ au_last.skipped
    /\ Cardinality(StoredOf(collection, "a.pdf")) = 1
    /\ \A r \in StoredOf(collection, "a.pdf") : r.chunk_index = 1

====
